---- MODULE Spec2Model ----
(***************************************************************************)
(* Model of the media-buying management system's core:                     *)
(*   - IntegrationMiddleware (app/integrations/middleware.py): the         *)
(*     fallback orchestration of a budget change over the registered       *)
(*     integrators and the direct platform connector;                      *)
(*   - SKUIntelligence (app/intelligence/sku_intelligence.py): mode        *)
(*     determination, explore/exploit decisions, execution and logging.    *)
(* Floating-point amounts are modelled as exact rationals [n, d].          *)
(***************************************************************************)
EXTENDS Integers, Sequences, FiniteSets, TLC

(***************************************************************************)
(* State.                                                                  *)
(***************************************************************************)
\* IntegrationMiddleware and the execute_budget_change call in flight.
VARIABLES
    platforms,         \* self.platforms: the registered platform names
    integrators,       \* self.integrators: <<[name, has_update]>> in insertion order
    fallback_enabled,  \* self.fallback_enabled
    mw_pc,             \* "idle", "integrators", "platform", "done"
    call_platform,     \* the platform argument of the call in flight
    it,                \* position of the integrator loop
    attempts,          \* attempts of _try_platform_budget_change
    trace,             \* connector calls and sleeps of the call in flight
    mw_result          \* the record execute_budget_change returned

mwVars == <<platforms, integrators, fallback_enabled, mw_pc, call_platform,
            it, attempts, trace, mw_result>>

\* The last call of SKUIntelligence.determine_mode.
VARIABLES
    dm_performance,    \* the performance argument of the last determine_mode call
    dm_mode            \* what that call returned ("none" before the first call)

dmVars == <<dm_performance, dm_mode>>

\* The last call of explore_mode_decisions / exploit_mode_decisions.
VARIABLES
    fn_campaigns,      \* the campaigns of the SKU, as get_campaigns_by_sku lists them
    fn_performance,    \* the performance argument
    fn_called,         \* "none", "explore" or "exploit"
    fn_decisions       \* the list the call returned

fnVars == <<fn_campaigns, fn_performance, fn_called, fn_decisions>>

\* The stores the engine works on and the make_hourly_decisions cycle in flight.
VARIABLES
    db_campaigns,      \* db.campaigns: the campaign documents, in find() order
    db_metrics,        \* db.performance_metrics of the last 7 days, grouped by campaign
    db_decisions,      \* db.intelligence_decisions: the decision log
    eng_pc,            \* "idle", "get_sku", "get_performance", "decide", "execute", "done"
    eng_sku,           \* the sku_id argument of the cycle in flight
    eng_performance,   \* performance (local of make_hourly_decisions)
    eng_mode,          \* mode (local)
    eng_campaigns,     \* campaigns (local of the decision function)
    eng_decisions,     \* decisions (local)
    eng_results,       \* execution_results (local)
    eng_result,        \* the record make_hourly_decisions returned
    eng_calls,         \* the mutating collaborator calls of the cycle in flight
    eng_faults,        \* the persistence reads that raised in the cycle in flight
    eng_changed,       \* the campaigns whose budget the engine has written
    eng_cycles,        \* cycles started
    eng_failures       \* collaborator calls that failed so far

engVars == <<db_campaigns, db_metrics, db_decisions, eng_pc, eng_sku,
             eng_performance, eng_mode, eng_campaigns, eng_decisions,
             eng_results, eng_result, eng_calls, eng_faults, eng_changed,
             eng_cycles, eng_failures>>

\* One call of SKUIntelligence.execute_decisions on a list handed to it.
VARIABLES
    ex_decisions,      \* the decisions argument
    ex_pos,            \* decisions the loop has been through
    ex_results,        \* results (local)
    ex_calls,          \* <<position, collaborator call>> in call order
    ex_returned        \* TRUE once the call has returned ex_results

exVars == <<ex_decisions, ex_pos, ex_results, ex_calls, ex_returned>>

\* IntelligenceScheduler and the start_hourly_optimization loop.
VARIABLES
    sch_store,         \* db.skus: the status of each SKU, in find() order
    sch_running,       \* self.running
    sch_pc,            \* "idle", "loop", "pass", "cycle", "sleep", "retry_sleep", "exited"
    sch_skus,          \* active_skus of the pass in flight
    sch_pos,           \* SKUs of the pass whose cycle has returned
    sch_pass,          \* enumerations made so far
    sch_log,           \* the cycles of the pass in flight, in start order
    sch_stopped,       \* stop_optimization has been called
    sch_stop_pass      \* sch_pass when stop_optimization was first called

schVars == <<sch_store, sch_running, sch_pc, sch_skus, sch_pos, sch_pass,
             sch_log, sch_stopped, sch_stop_pass>>

\* One call of IntegrationMiddleware._calculate_data_quality_score.
VARIABLES
    qs_sources,        \* the data_sources argument: <<name, data>> pairs
    qs_called,         \* TRUE once the call has returned
    qs_score           \* what it returned

qsVars == <<qs_sources, qs_called, qs_score>>

\* Calls of IntegrationMetricsService.normalize_payload on one payload.
VARIABLES
    nz_payload,        \* the payload argument
    nz_clock,          \* datetime.utcnow(), in ticks
    nz_calls           \* <<[at, result]>>: the calls made so far, in order

nzVars == <<nz_payload, nz_clock, nz_calls>>

\* IntegrationMiddleware.aggregate_performance_data and the metric stores.
VARIABLES
    agg_reports,       \* the reports get_performance_metrics can give back
    agg_integrators,   \* self.integrators: <<[name, has_metrics]>> in insertion order
    agg_registered,    \* platform in self.platforms
    db_raw,            \* db.integration_metrics_raw, in insertion order
    db_norm,           \* db.integration_metrics, in insertion order
    agg_pc,            \* "idle", "integrators", "platform", "merge", "save_raw",
                       \* "normalize", "save_normalized", "finish", "done"
    agg_it,            \* position of the loop of _collect_integrator_data
    agg_attempts,      \* attempts of _collect_platform_data
    agg_integrator_data,  \* integrator_data (local)
    agg_platform_data, \* platform_data (local)
    agg_sources,       \* all_data_sources (local)
    agg_pos,           \* sources the persistence loop is through
    agg_data,          \* aggregated_data (local)
    agg_normalized,    \* normalized (local)
    agg_trace,         \* connector calls, sleeps and store calls of the call in flight
    agg_result,        \* the record aggregate_performance_data returned
    agg_calls          \* calls of aggregate_performance_data so far

aggVars == <<agg_reports, agg_integrators, agg_registered, db_raw, db_norm,
             agg_pc, agg_it,
             agg_attempts, agg_integrator_data, agg_platform_data, agg_sources,
             agg_pos, agg_data, agg_normalized, agg_trace, agg_result,
             agg_calls>>

\* IntegrationMiddleware.create_campaign_with_fallback and the requests it sends.
VARIABLES
    cr_integrators,    \* self.integrators: names in insertion order
    cr_registered,     \* platform in self.platforms
    cr_platform,       \* the platform argument
    cr_fallback,       \* self.fallback_enabled
    cr_data,           \* the campaign_data argument
    cr_pc,             \* "idle", "integrators", "platform", "done"
    cr_it,             \* position of the loop of _try_integrator_campaign_creation
    cr_trace,          \* <<[via, status]>>: creation requests posted, in order
    cr_result          \* the dict create_campaign_with_fallback returned

crVars == <<cr_integrators, cr_registered, cr_platform, cr_fallback, cr_data,
            cr_pc, cr_it, cr_trace, cr_result>>

\* One call of a platform connector operation, as its caller observes it.
VARIABLES
    cn_platform,       \* the connector called
    cn_op,             \* the operation called
    cn_pc,             \* "idle", "responded", "raised", "done"
    cn_status,         \* response.status_code
    cn_raised,         \* class of the exception raised inside the try block
    cn_observed        \* [kind, value]: what the caller gets

cnVars == <<cn_platform, cn_op, cn_pc, cn_status, cn_raised, cn_observed>>

\* IntegrationMiddleware.pause_campaign_with_fallback.
VARIABLES
    pz_integrators,    \* self.integrators: <<[name, has_pause]>> in insertion order
    pz_registered,     \* platform in self.platforms
    pz_fallback,       \* self.fallback_enabled
    pz_pc,             \* "idle", "integrators", "platform", "done"
    pz_it,             \* position of the loop of _try_integrator_campaign_pause
    pz_trace,          \* connector calls of the call in flight
    pz_result          \* the dict pause_campaign_with_fallback returned

pzVars == <<pz_integrators, pz_registered, pz_fallback, pz_pc, pz_it, pz_trace,
            pz_result>>

\* Registrations made while execute_budget_change is in flight.
VARIABLES
    rg_started,        \* self.integrators when the call in flight started
    rg_resized,        \* a key was added to self.integrators under the loop
    rg_registrations   \* registrations made while the call was in flight

rgVars == <<rg_started, rg_resized, rg_registrations>>

\* One IntelligenceScheduler instance and the loops started on it.
VARIABLES
    dl_running,        \* self.running
    dl_pc,             \* per start call: "unstarted", "loop", "pass", "sleep", "exited"
    dl_pos,            \* per loop: SKUs its for loop is through
    dl_wake,           \* per loop: the hour its sleep ends
    dl_hour,           \* the clock, in hours
    dl_cycles          \* {[loop, sku, hour]}: decision cycles run so far

dlVars == <<dl_running, dl_pc, dl_pos, dl_wake, dl_hour, dl_cycles>>

vars ==
    <<mwVars, dmVars, fnVars, engVars, exVars, schVars, qsVars, nzVars,
      aggVars, crVars, cnVars, pzVars, rgVars, dlVars>>

\* What the operations of one component leave alone.
mwFrame ==
    <<dmVars, fnVars, engVars, exVars, schVars, qsVars, nzVars, aggVars,
      crVars, cnVars, pzVars, rgVars, dlVars>>
dmFrame ==
    <<mwVars, fnVars, engVars, exVars, schVars, qsVars, nzVars, aggVars,
      crVars, cnVars, pzVars, rgVars, dlVars>>
fnFrame ==
    <<mwVars, dmVars, engVars, exVars, schVars, qsVars, nzVars, aggVars,
      crVars, cnVars, pzVars, rgVars, dlVars>>
engFrame ==
    <<mwVars, dmVars, fnVars, exVars, schVars, qsVars, nzVars, aggVars,
      crVars, cnVars, pzVars, rgVars, dlVars>>
exFrame ==
    <<mwVars, dmVars, fnVars, engVars, schVars, qsVars, nzVars, aggVars,
      crVars, cnVars, pzVars, rgVars, dlVars>>
schFrame ==
    <<mwVars, dmVars, fnVars, engVars, exVars, qsVars, nzVars, aggVars,
      crVars, cnVars, pzVars, rgVars, dlVars>>
qsFrame ==
    <<mwVars, dmVars, fnVars, engVars, exVars, schVars, nzVars, aggVars,
      crVars, cnVars, pzVars, rgVars, dlVars>>
nzFrame ==
    <<mwVars, dmVars, fnVars, engVars, exVars, schVars, qsVars, aggVars,
      crVars, cnVars, pzVars, rgVars, dlVars>>
aggFrame ==
    <<mwVars, dmVars, fnVars, engVars, exVars, schVars, qsVars, nzVars,
      crVars, cnVars, pzVars, rgVars, dlVars>>
crFrame ==
    <<mwVars, dmVars, fnVars, engVars, exVars, schVars, qsVars, nzVars,
      aggVars, cnVars, pzVars, rgVars, dlVars>>
cnFrame ==
    <<mwVars, dmVars, fnVars, engVars, exVars, schVars, qsVars, nzVars,
      aggVars, crVars, pzVars, rgVars, dlVars>>
pzFrame ==
    <<mwVars, dmVars, fnVars, engVars, exVars, schVars, qsVars, nzVars,
      aggVars, crVars, cnVars, rgVars, dlVars>>
rgFrame ==
    <<mwVars, dmVars, fnVars, engVars, exVars, schVars, qsVars, nzVars,
      aggVars, crVars, cnVars, pzVars, dlVars>>
dlFrame ==
    <<mwVars, dmVars, fnVars, engVars, exVars, schVars, qsVars, nzVars,
      aggVars, crVars, cnVars, pzVars, rgVars>>

(***************************************************************************)
(* Exact rationals: a value is [n |-> numerator, d |-> denominator > 0],   *)
(* kept in lowest terms so that equal amounts are equal values.            *)
(***************************************************************************)
Abs(x) == IF x < 0 THEN -x ELSE x

RECURSIVE Gcd(_, _)
Gcd(a, b) == IF b = 0 THEN a ELSE Gcd(b, a % b)

Rat(n, d) ==
    LET s == IF d < 0 THEN -1 ELSE 1
        g == Gcd(Abs(n), Abs(d))
    IN  [n |-> (s * n) \div g, d |-> (s * d) \div g]

RInt(k) == [n |-> k, d |-> 1]
RAdd(a, b) == Rat(a.n * b.d + b.n * a.d, a.d * b.d)
RSub(a, b) == Rat(a.n * b.d - b.n * a.d, a.d * b.d)
RMul(a, b) == Rat(a.n * b.n, a.d * b.d)
RDiv(a, b) == Rat(a.n * b.d, a.d * b.n)
RLt(a, b) == a.n * b.d < b.n * a.d
RLe(a, b) == a.n * b.d <= b.n * a.d
RMax(a, b) == IF RLt(a, b) THEN b ELSE a
RMin(a, b) == IF RLt(b, a) THEN b ELSE a

RECURSIVE RSum(_)
RSum(s) == IF s = <<>> THEN RInt(0) ELSE RAdd(Head(s), RSum(Tail(s)))

(***************************************************************************)
(* Bounds of the model.                                                    *)
(***************************************************************************)
MaxIntegrators == 2

(***************************************************************************)
(* IntegrationMiddleware: registry and the execute_budget_change call.     *)
(***************************************************************************)
IntegratorNames == {"adroll", "stackadapt", "adespresso"}
PlatformNames ==
    {"google_ads", "meta_ads", "tiktok_ads", "linkedin_ads", "snapchat_ads"}

\* What one awaited connector call can do.
IntegratorOutcomes == {"true", "false", "raise"}
PlatformOutcomes ==
    {"true", "false", "rate_limit", "auth_error", "integration_error"}

NoSource == <<>>
NoPlatform == "none"
NoResult == [success |-> FALSE, source |-> NoSource, message |-> <<>>, errors |-> <<>>]
Unbound == [success |-> FALSE, source |-> NoSource, message |-> <<"unbound">>, errors |-> <<>>]

Event(ev, name, out, dur) == [ev |-> ev, name |-> name, out |-> out, dur |-> dur]
CallEvent(ev, name, out) == Event(ev, name, out, RInt(0))
SleepEvent(dur) == Event("sleep", "asyncio", "slept", dur)

MaxAttempts == 3

\* asyncio.sleep((attempts + 1) * 0.5)
Backoff(n) == RMul(RInt(n + 1), Rat(1, 2))

\* Mutant: one fixed delay for every platform.
RateLimitDelay_Fixed(p) == RInt(1)

\* self.rate_limit_delays.get(platform, 1.0)
RateLimitDelay(p) ==
    CASE p = "google_ads" -> RInt(1)
      [] p = "meta_ads" -> Rat(1, 2)
      [] p = "tiktok_ads" -> Rat(3, 2)
      [] p = "linkedin_ads" -> RInt(2)
      [] OTHER -> RInt(1)

IntegratorSuccess(name) ==
    [success |-> TRUE, source |-> <<name>>,
     message |-> <<"Budget updated via", name>>, errors |-> <<>>]

AllIntegratorsFailed ==
    [success |-> FALSE, source |-> NoSource,
     message |-> <<"All integrators failed">>, errors |-> <<>>]

PlatformSuccess(p) ==
    [success |-> TRUE, source |-> <<"direct", p>>,
     message |-> <<"Budget updated via direct", p, "API">>, errors |-> <<>>]

PlatformFailure(kind, p) ==
    [success |-> FALSE, source |-> NoSource, message |-> <<kind, p>>, errors |-> <<>>]

\* Lines 66-77: the final return reads platform_result, which is unbound when
\* the fallback branch was not taken; the UnboundLocalError is caught at line 72.
FinalFailure(integrator_result, platform_result) ==
    IF platform_result = Unbound
    THEN [success |-> FALSE, source |-> NoSource,
          message |-> <<"Budget change execution failed:", "UnboundLocalError">>,
          errors |-> <<>>]
    ELSE [success |-> FALSE, source |-> NoSource,
          message |-> <<"Both integrator and direct platform API failed">>,
          errors |-> <<integrator_result.message, platform_result.message>>]

MwInit ==
    /\ platforms = {}
    /\ integrators = <<>>
    /\ fallback_enabled = TRUE
    /\ mw_pc = "idle"
    /\ call_platform = NoPlatform
    /\ it = 0
    /\ attempts = 0
    /\ trace = <<>>
    /\ mw_result = NoResult

RegisteredNames == {integrators[i].name : i \in 1..Len(integrators)}

register_platform(p) ==
    /\ mw_pc = "idle"
    /\ platforms' = platforms \cup {p}
    /\ UNCHANGED <<integrators, fallback_enabled, mw_pc, call_platform, it,
                   attempts, trace, mw_result>>
    /\ UNCHANGED mwFrame

\* A dict assignment: a known key keeps its position, a new key goes last.
register_integrator(name, has_update) ==
    /\ mw_pc = "idle"
    /\ LET inst == [name |-> name, has_update |-> has_update]
       IN  IF name \in RegisteredNames
           THEN integrators' =
                    [i \in 1..Len(integrators) |->
                        IF integrators[i].name = name THEN inst ELSE integrators[i]]
           ELSE /\ Len(integrators) < MaxIntegrators
                /\ integrators' = Append(integrators, inst)
    /\ UNCHANGED <<platforms, fallback_enabled, mw_pc, call_platform, it,
                   attempts, trace, mw_result>>
    /\ UNCHANGED mwFrame

set_fallback_enabled(b) ==
    /\ mw_pc = "idle"
    /\ fallback_enabled' = b
    /\ UNCHANGED <<platforms, integrators, mw_pc, call_platform, it,
                   attempts, trace, mw_result>>
    /\ UNCHANGED mwFrame

\* execute_budget_change is entered: _try_integrator_budget_change starts.
execute_budget_change(p) ==
    /\ mw_pc = "idle"
    /\ mw_pc' = "integrators"
    /\ call_platform' = p
    /\ it' = 1
    /\ attempts' = 0
    /\ trace' = <<>>
    /\ mw_result' = NoResult
    /\ UNCHANGED <<platforms, integrators, fallback_enabled>>
    /\ UNCHANGED mwFrame

\* Mutant: the loop records the success but goes on to the next integrator.
TryIntegrator_NoReturn ==
    /\ mw_pc = "integrators"
    /\ it <= Len(integrators)
    /\ LET integ == integrators[it]
       IN  IF ~integ.has_update
           THEN /\ it' = it + 1
                /\ UNCHANGED <<mw_pc, trace, mw_result>>
           ELSE \E out \in IntegratorOutcomes :
                  /\ trace' = Append(trace, CallEvent("integrator", integ.name, out))
                  /\ it' = it + 1
                  /\ mw_result' = IF out = "true"
                                  THEN IntegratorSuccess(integ.name) ELSE mw_result
                  /\ UNCHANGED mw_pc
    /\ UNCHANGED <<platforms, integrators, fallback_enabled, call_platform, attempts>>
    /\ UNCHANGED mwFrame

\* One iteration of the loop of _try_integrator_budget_change.
TryIntegrator ==
    /\ mw_pc = "integrators"
    /\ it <= Len(integrators)
    /\ LET integ == integrators[it]
       IN  IF ~integ.has_update
           THEN /\ it' = it + 1
                /\ UNCHANGED <<mw_pc, trace, mw_result>>
           ELSE \E out \in IntegratorOutcomes :
                  /\ trace' = Append(trace, CallEvent("integrator", integ.name, out))
                  /\ IF out = "true"
                     THEN /\ mw_pc' = "done"
                          /\ mw_result' = IntegratorSuccess(integ.name)
                          /\ it' = it
                     ELSE /\ it' = it + 1
                          /\ UNCHANGED <<mw_pc, mw_result>>
    /\ UNCHANGED <<platforms, integrators, fallback_enabled, call_platform, attempts>>
    /\ UNCHANGED mwFrame

\* Mutant: the platform path is taken whatever fallback_enabled says.
IntegratorsExhausted_AlwaysFallback ==
    /\ mw_pc = "integrators"
    /\ it > Len(integrators)
    /\ IF call_platform \notin platforms
       THEN /\ mw_pc' = "done"
            /\ mw_result' = FinalFailure(AllIntegratorsFailed,
                   PlatformFailure("Platform not available", call_platform))
       ELSE /\ mw_pc' = "platform"
            /\ UNCHANGED mw_result
    /\ UNCHANGED <<platforms, integrators, fallback_enabled, call_platform, it,
                   attempts, trace>>
    /\ UNCHANGED mwFrame

\* The integrator loop ran out: lines 51-70 of execute_budget_change and the
\* entry of _try_platform_budget_change (lines 268-274).
IntegratorsExhausted ==
    /\ mw_pc = "integrators"
    /\ it > Len(integrators)
    /\ IF fallback_enabled
       THEN IF call_platform \notin platforms
            THEN /\ mw_pc' = "done"
                 /\ mw_result' = FinalFailure(AllIntegratorsFailed,
                        PlatformFailure("Platform not available", call_platform))
            ELSE /\ mw_pc' = "platform"
                 /\ UNCHANGED mw_result
       ELSE /\ mw_pc' = "done"
            /\ mw_result' = FinalFailure(AllIntegratorsFailed, Unbound)
    /\ UNCHANGED <<platforms, integrators, fallback_enabled, call_platform, it,
                   attempts, trace>>
    /\ UNCHANGED mwFrame

\* One iteration of the retry loop of _try_platform_budget_change, with the
\* handlers of lines 291-297 and the return through lines 62-70.
PlatformAttempt ==
    /\ mw_pc = "platform"
    /\ attempts < MaxAttempts
    /\ \E out \in PlatformOutcomes :
         LET call == CallEvent("platform", call_platform, out)
         IN  CASE out = "true" ->
                   /\ trace' = Append(trace, call)
                   /\ mw_pc' = "done"
                   /\ mw_result' = PlatformSuccess(call_platform)
                   /\ UNCHANGED attempts
               [] out = "false" ->
                   /\ trace' = trace \o <<call, SleepEvent(Backoff(attempts))>>
                   /\ attempts' = attempts + 1
                   /\ IF attempts + 1 < MaxAttempts
                      THEN UNCHANGED <<mw_pc, mw_result>>
                      ELSE /\ mw_pc' = "done"
                           /\ mw_result' = FinalFailure(AllIntegratorsFailed,
                                  PlatformFailure("Direct API failed", call_platform))
               [] out = "rate_limit" ->
                   /\ trace' = trace \o <<call, SleepEvent(RateLimitDelay(call_platform))>>
                   /\ mw_pc' = "done"
                   /\ mw_result' = FinalFailure(AllIntegratorsFailed,
                          PlatformFailure("Rate limited on", call_platform))
                   /\ UNCHANGED attempts
               [] OTHER ->
                   /\ trace' = Append(trace, call)
                   /\ mw_pc' = "done"
                   /\ mw_result' = FinalFailure(AllIntegratorsFailed,
                          PlatformFailure("Direct API error", call_platform))
                   /\ UNCHANGED attempts
    /\ UNCHANGED <<platforms, integrators, fallback_enabled, call_platform, it>>
    /\ UNCHANGED mwFrame

\* The caller has the result; the middleware is ready for the next call.
MwReturn ==
    /\ mw_pc = "done"
    /\ mw_pc' = "idle"
    /\ call_platform' = NoPlatform
    /\ it' = 0
    /\ attempts' = 0
    /\ trace' = <<>>
    /\ mw_result' = NoResult
    /\ UNCHANGED <<platforms, integrators, fallback_enabled>>
    /\ UNCHANGED mwFrame

MwNext ==
    \/ \E p \in PlatformNames : register_platform(p)
    \/ \E n \in IntegratorNames, h \in BOOLEAN : register_integrator(n, h)
    \/ \E b \in BOOLEAN : set_fallback_enabled(b)
    \/ \E p \in PlatformNames : execute_budget_change(p)
    \/ TryIntegrator
    \/ IntegratorsExhausted
    \/ PlatformAttempt
    \/ MwReturn

(***************************************************************************)
(* Properties of execute_budget_change.                                    *)
(***************************************************************************)
IsIntegratorCall(e) == e.ev = "integrator"
IsPlatformCall(e) == e.ev = "platform"
IsSleep(e) == e.ev = "sleep"
HasUpdate(i) == i.has_update

IntegratorEvents == SelectSeq(trace, IsIntegratorCall)
PlatformEvents == SelectSeq(trace, IsPlatformCall)
SleepEvents == SelectSeq(trace, IsSleep)
\* The registered integrators that offer update_campaign_budget, in order.
Capable == SelectSeq(integrators, HasUpdate)
CapableBefore(k) == SelectSeq(SubSeq(integrators, 1, k - 1), HasUpdate)
NoIntegratorSucceeded == \A k \in 1..Len(trace) :
    ~(IsIntegratorCall(trace[k]) /\ trace[k].out = "true")

\* C1: integrators are called one at a time in registration order; a call
\* that returns true ends the operation at once with success=true and that
\* integrator as the source, so that no later integrator and no platform
\* connector is called; a call that returns false or raises is followed by
\* the next integrator, until all of them have been tried.
C1_FirstIntegratorSuccessWins ==
    LET ie == IntegratorEvents
    IN  /\ Len(ie) <= Len(Capable)
        /\ \A k \in 1..Len(ie) : ie[k].name = Capable[k].name
        /\ \A k \in 1..Len(trace) :
             (IsIntegratorCall(trace[k]) /\ trace[k].out = "true") =>
                 /\ k = Len(trace)
                 /\ mw_pc = "done"
                 /\ mw_result.success
                 /\ mw_result.source = <<trace[k].name>>
                 /\ \A j \in 1..(k - 1) : IsIntegratorCall(trace[j])
        /\ (mw_pc = "integrators" /\ NoIntegratorSucceeded) =>
               Len(ie) = Len(CapableBefore(it))
        /\ (mw_pc \in {"platform", "done"} /\ NoIntegratorSucceeded) =>
               Len(ie) = Len(Capable)
        /\ (mw_pc = "done" /\ mw_result.success /\ Len(mw_result.source) = 1) =>
               /\ trace # <<>>
               /\ trace[Len(trace)] =
                      CallEvent("integrator", mw_result.source[1], "true")

\* The second integrator wins after the first one raised, with the platform
\* connector registered and the fallback enabled.
C1_Witness ==
    /\ mw_pc = "done"
    /\ mw_result.success
    /\ fallback_enabled
    /\ call_platform \in platforms
    /\ Len(trace) = 2
    /\ trace[1].out = "raise"
    /\ trace[2] = CallEvent("integrator", integrators[2].name, "true")

\* C2: with fallback_enabled false, a call in which no integrator succeeds
\* returns success=false and never calls the platform connector.
C2_NoFallbackNoPlatformCall ==
    ~fallback_enabled =>
        /\ mw_pc # "platform"
        /\ PlatformEvents = <<>>
        /\ (mw_pc = "done" /\ NoIntegratorSucceeded) => ~mw_result.success

\* Fallback disabled, the platform registered, one integrator tried and failed.
C2_Witness ==
    /\ mw_pc = "done"
    /\ ~fallback_enabled
    /\ call_platform \in platforms
    /\ Len(trace) = 1
    /\ trace[1].out = "false"
    /\ ~mw_result.success

C2_WitnessNoIntegrator ==
    /\ mw_pc = "done"
    /\ ~fallback_enabled
    /\ call_platform \in platforms
    /\ integrators = <<>>
    /\ ~mw_result.success

\* C3: when the connector only returns true or false, the platform path calls
\* it at most 3 times, stops at the first true, waits k * 0.5 after the k-th
\* failed attempt, and every wait is followed by another attempt (no wait
\* follows the final attempt).
PlatformNeverRaised == \A k \in 1..Len(trace) :
    IsPlatformCall(trace[k]) => trace[k].out \in {"true", "false"}

C3_BackoffOnlyBetweenAttempts ==
    PlatformNeverRaised =>
        /\ Len(PlatformEvents) <= 3
        /\ \A k \in 1..Len(PlatformEvents) :
             PlatformEvents[k].out = "true" => k = Len(PlatformEvents)
        /\ \A k \in 1..Len(SleepEvents) : SleepEvents[k].dur = Rat(k, 2)
        /\ \A k \in 1..Len(trace) :
             IsSleep(trace[k]) =>
                 /\ k > 1
                 /\ IsPlatformCall(trace[k - 1])
                 /\ trace[k - 1].out = "false"
        /\ (mw_pc = "done" /\ trace # <<>>) => ~IsSleep(trace[Len(trace)])

\* What the loop does: every failed attempt, the last one included, is
\* followed by its wait.
C3_BackoffAfterEveryFailedAttempt ==
    PlatformNeverRaised =>
        /\ Len(PlatformEvents) <= 3
        /\ \A k \in 1..Len(PlatformEvents) :
             PlatformEvents[k].out = "true" => k = Len(PlatformEvents)
        /\ \A k \in 1..Len(SleepEvents) : SleepEvents[k].dur = Rat(k, 2)
        /\ \A k \in 1..Len(trace) :
             (IsPlatformCall(trace[k]) /\ trace[k].out = "false") =>
                 /\ k < Len(trace)
                 /\ IsSleep(trace[k + 1])

\* C4: a RateLimitError of the platform connector ends the platform path: no
\* further attempt, one sleep of the delay configured for the platform (1.0
\* when none is configured), and a failed result with the rate-limited message.
ConfiguredDelay(p) ==
    IF p = "google_ads" THEN Rat(2, 2)
    ELSE IF p = "meta_ads" THEN Rat(1, 2)
    ELSE IF p = "tiktok_ads" THEN Rat(3, 2)
    ELSE IF p = "linkedin_ads" THEN Rat(4, 2)
    ELSE Rat(2, 2)

C4_RateLimitShortCircuits ==
    \A k \in 1..Len(trace) :
        (IsPlatformCall(trace[k]) /\ trace[k].out = "rate_limit") =>
            /\ Len(trace) = k + 1
            /\ trace[k + 1] = SleepEvent(ConfiguredDelay(call_platform))
            /\ mw_pc = "done"
            /\ ~mw_result.success
            /\ mw_result.errors[2] = <<"Rate limited on", call_platform>>

\* The second attempt on a platform without a configured delay is rate limited.
C4_Witness ==
    /\ mw_pc = "done"
    /\ call_platform = "snapchat_ads"
    /\ Len(PlatformEvents) = 2
    /\ PlatformEvents[1].out = "false"
    /\ PlatformEvents[2].out = "rate_limit"

(***************************************************************************)
(* SKUIntelligence: configuration (MVP_CONFIG) and determine_mode.         *)
(***************************************************************************)
min_campaign_budget == 100
explore_budget_percentage == 20
impression_threshold == 1000
minimum_data_points_for_decisions == 50
explore_mode_duration_days == 7
exploit_confidence_threshold == Rat(8, 10)
min_roas_for_exploit == RInt(2)
max_daily_budget_increase_percentage == 50

\* A performance record as get_sku_performance builds it; campaigns maps a
\* campaign id to its [roas] entry and has no entry for a campaign without
\* metrics.
Performance(days, confidence, impressions, roas, per_campaign) ==
    [days_running |-> days, confidence_score |-> confidence,
     total_impressions |-> impressions, avg_roas |-> roas,
     campaigns |-> per_campaign]

\* Mutant: the thresholds are compared with >= instead of >.
determine_mode_Inclusive(performance) ==
    IF performance.days_running < explore_mode_duration_days
    THEN "explore"
    ELSE IF performance.total_impressions < impression_threshold
    THEN "explore"
    ELSE IF /\ RLe(exploit_confidence_threshold, performance.confidence_score)
            /\ RLe(min_roas_for_exploit, performance.avg_roas)
    THEN "exploit"
    ELSE "explore"

determine_mode(performance) ==
    IF performance.days_running < explore_mode_duration_days
    THEN "explore"
    ELSE IF performance.total_impressions < impression_threshold
    THEN "explore"
    ELSE IF /\ RLt(exploit_confidence_threshold, performance.confidence_score)
            /\ RLt(min_roas_for_exploit, performance.avg_roas)
    THEN "exploit"
    ELSE "explore"

DaysDomain == {0, 3, 6, 7, 10}
ConfidenceDomain == {RInt(0), Rat(1, 2), Rat(8, 10), Rat(9, 10), RInt(1)}
ImpressionsDomain == {0, 500, 999, 1000, 5000}
RoasDomain == {RInt(0), Rat(3, 2), RInt(2), Rat(21, 10), Rat(7, 2)}

PerformanceDomain ==
    {Performance(d, c, i, r, <<>>) :
        d \in DaysDomain, c \in ConfidenceDomain,
        i \in ImpressionsDomain, r \in RoasDomain}

DmInit ==
    /\ dm_performance \in PerformanceDomain
    /\ dm_mode = "none"

DmIdle ==
    /\ dm_performance = Performance(0, RInt(0), 0, RInt(0), <<>>)
    /\ dm_mode = "none"

\* One call of determine_mode; the engine holds nothing from earlier calls.
DetermineModeCall(performance) ==
    /\ dm_performance' = performance
    /\ dm_mode' = determine_mode(performance)
    /\ UNCHANGED dmFrame

DmNext == \E performance \in PerformanceDomain : DetermineModeCall(performance)

\* C7: the mode returned is decided by the four fields of the call alone, by
\* the precedence days_running < 7 => explore; total_impressions < 1000 =>
\* explore; confidence > 0.8 and avg_roas > 2.0 => exploit; else explore.
\* A threshold value itself (0.8, 2.0) does not give exploit.
C7_ModePrecedence ==
    dm_mode # "none" =>
        LET p == dm_performance
            exploit == /\ p.days_running >= 7
                       /\ p.total_impressions >= 1000
                       /\ p.confidence_score.n * 10 > 8 * p.confidence_score.d
                       /\ p.avg_roas.n > 2 * p.avg_roas.d
        IN  /\ dm_mode = (IF exploit THEN "exploit" ELSE "explore")
            /\ p.days_running < 7 => dm_mode = "explore"
            /\ p.confidence_score = Rat(4, 5) => dm_mode = "explore"
            /\ p.avg_roas = RInt(2) => dm_mode = "explore"

\* A call at the confidence threshold itself, everything else in favour of
\* exploit, made after an earlier call that returned exploit.
C7_Witness ==
    /\ dm_mode = "explore"
    /\ dm_performance = Performance(10, Rat(4, 5), 5000, Rat(7, 2), <<>>)

(***************************************************************************)
(* SKUIntelligence: explore_mode_decisions and exploit_mode_decisions.     *)
(* A campaign is [id, status, budget_allocated]; the campaigns argument is *)
(* the list get_campaigns_by_sku returned.                                 *)
(***************************************************************************)
Campaign(id, status, budget) ==
    [id |-> id, status |-> status, budget_allocated |-> budget]

\* performance.get('campaigns', {}).get(campaign['_id'], {}).get('roas', 0)
RoasOf(performance, id) ==
    IF id \in DOMAIN performance.campaigns
    THEN performance.campaigns[id].roas
    ELSE RInt(0)

IsActive(c) == c.status = "active"
ActiveCampaigns(campaigns) == SelectSeq(campaigns, IsActive)

\* sorted(..., key=roas): stable, ascending.
RECURSIVE InsertAscending(_, _, _)
InsertAscending(sorted, c, performance) ==
    IF sorted = <<>>
    THEN <<c>>
    ELSE IF RLt(RoasOf(performance, c.id), RoasOf(performance, Head(sorted).id))
    THEN <<c>> \o sorted
    ELSE <<Head(sorted)>> \o InsertAscending(Tail(sorted), c, performance)

RECURSIVE SortAscending(_, _)
SortAscending(campaigns, performance) ==
    IF campaigns = <<>>
    THEN <<>>
    ELSE InsertAscending(
             SortAscending(SubSeq(campaigns, 1, Len(campaigns) - 1), performance),
             campaigns[Len(campaigns)], performance)

\* sorted(..., key=roas, reverse=True): stable, descending.
RECURSIVE InsertDescending(_, _, _)
InsertDescending(sorted, c, performance) ==
    IF sorted = <<>>
    THEN <<c>>
    ELSE IF RLt(RoasOf(performance, Head(sorted).id), RoasOf(performance, c.id))
    THEN <<c>> \o sorted
    ELSE <<Head(sorted)>> \o InsertDescending(Tail(sorted), c, performance)

RECURSIVE SortDescending(_, _)
SortDescending(campaigns, performance) ==
    IF campaigns = <<>>
    THEN <<>>
    ELSE InsertDescending(
             SortDescending(SubSeq(campaigns, 1, Len(campaigns) - 1), performance),
             campaigns[Len(campaigns)], performance)

RECURSIVE Flatten(_)
Flatten(ss) == IF ss = <<>> THEN <<>> ELSE Head(ss) \o Flatten(Tail(ss))

CampaignBudgets(campaigns) ==
    [i \in 1..Len(campaigns) |-> campaigns[i].budget_allocated]

Decision(campaign, new_budget, reason) ==
    [type |-> "budget_allocation", campaign_id |-> campaign.id,
     old_budget |-> campaign.budget_allocated, new_budget |-> new_budget,
     reason |-> reason]

\* campaigns_by_performance[:3]
ExploreTopN == 3
\* explore_budget / 3
ExploreShareDivisor == 3

\* Mutant: the whole budget is shared out, not explore_budget_percentage of it.
ExploreBudget_WholeBudget(active) == RSum(CampaignBudgets(active))

\* total_budget * (explore_budget_percentage / 100)
ExploreBudget(active) ==
    RMul(RSum(CampaignBudgets(active)), Rat(explore_budget_percentage, 100))

\* Mutant: the floor at min_campaign_budget is left out.
ExploreNewBudget_NoFloor(campaign, explore_budget) ==
    RAdd(campaign.budget_allocated, RDiv(explore_budget, RInt(ExploreShareDivisor)))

\* new_budget = max(current_budget + explore_budget / 3, min_campaign_budget)
ExploreNewBudget(campaign, explore_budget) ==
    RMax(RAdd(campaign.budget_allocated,
              RDiv(explore_budget, RInt(ExploreShareDivisor))),
         RInt(min_campaign_budget))

explore_mode_decisions(campaigns, performance) ==
    LET active == ActiveCampaigns(campaigns)
        explore_budget == ExploreBudget(active)
        by_performance == SortAscending(active, performance)
        top == SubSeq(by_performance, 1,
                      IF Len(by_performance) < ExploreTopN
                      THEN Len(by_performance) ELSE ExploreTopN)
    IN  Flatten([i \in 1..Len(top) |->
            LET new_budget == ExploreNewBudget(top[i], explore_budget)
            IN  IF new_budget # top[i].budget_allocated
                THEN <<Decision(top[i], new_budget,
                                <<"Exploration allocation for learning", i>>)>>
                ELSE <<>>])

HighRoas == RInt(3)
LowRoas == Rat(3, 2)

\* Mutant: only the daily cap is applied.
ExploitIncrease_CapOnly(budget) ==
    RMul(budget, RAdd(RInt(1), Rat(max_daily_budget_increase_percentage, 100)))

\* min(current * 1.1, current * (1 + max_daily_budget_increase_percentage / 100))
ExploitIncrease(budget) ==
    RMin(RMul(budget, Rat(11, 10)),
         RMul(budget, RAdd(RInt(1), Rat(max_daily_budget_increase_percentage, 100))))

\* max(current * 0.8, min_campaign_budget)
ExploitDecrease(budget) ==
    RMax(RMul(budget, Rat(8, 10)), RInt(min_campaign_budget))

exploit_mode_decisions(campaigns, performance) ==
    LET active == ActiveCampaigns(campaigns)
        by_performance == SortDescending(active, performance)
    IN  Flatten([i \in 1..Len(by_performance) |->
            LET c == by_performance[i]
                current_roas == RoasOf(performance, c.id)
            IN  IF RLt(HighRoas, current_roas)
                THEN <<Decision(c, ExploitIncrease(c.budget_allocated),
                                <<"Exploit: High ROAS - increasing budget", current_roas>>)>>
                ELSE IF RLt(current_roas, LowRoas)
                THEN <<Decision(c, ExploitDecrease(c.budget_allocated),
                                <<"Exploit: Low ROAS - decreasing budget", current_roas>>)>>
                ELSE <<>>])

(***************************************************************************)
(* The two decision functions applied to drawn inputs.                     *)
(***************************************************************************)
MaxExploreCampaigns == 4
MaxExploitCampaigns == 2

\* A campaign without metrics has no entry in performance['campaigns'].
NoRoas == [n |-> 0, d |-> 0]

InputRow(status, budget, roas) == [status |-> status, budget |-> budget, roas |-> roas]

ExploreRows ==
    {InputRow("active", b, r) :
        b \in {RInt(0), RInt(30), RInt(1500)},
        r \in {NoRoas, RInt(1), RInt(3)}}
    \cup {InputRow("paused", RInt(1500), r) : r \in {NoRoas, RInt(1)}}

ExploitRows ==
    {InputRow(st, b, r) :
        st \in {"active", "paused"},
        b \in {RInt(0), RInt(50), RInt(100), RInt(800), RInt(1000)},
        r \in {NoRoas, RInt(1), Rat(3, 2), RInt(2), RInt(3), RInt(4)}}

RowLists(rows, max) == UNION {[1..n -> rows] : n \in 0..max}

CampaignsOf(rows) ==
    [i \in 1..Len(rows) |-> Campaign(i, rows[i].status, rows[i].budget)]

PerformanceOf(rows) ==
    Performance(7, RInt(0), 0, RInt(0),
        [i \in {j \in 1..Len(rows) : rows[j].roas # NoRoas} |-> [roas |-> rows[i].roas]])

FnInit(rows, max) ==
    /\ \E input \in RowLists(rows, max) :
         /\ fn_campaigns = CampaignsOf(input)
         /\ fn_performance = PerformanceOf(input)
    /\ fn_called = "none"
    /\ fn_decisions = <<>>

FnIdle ==
    /\ fn_campaigns = <<>>
    /\ fn_performance = PerformanceOf(<<>>)
    /\ fn_called = "none"
    /\ fn_decisions = <<>>

ExploreCall ==
    /\ fn_called = "none"
    /\ fn_called' = "explore"
    /\ fn_decisions' = explore_mode_decisions(fn_campaigns, fn_performance)
    /\ UNCHANGED <<fn_campaigns, fn_performance>>
    /\ UNCHANGED fnFrame

ExploitCall ==
    /\ fn_called = "none"
    /\ fn_called' = "exploit"
    /\ fn_decisions' = exploit_mode_decisions(fn_campaigns, fn_performance)
    /\ UNCHANGED <<fn_campaigns, fn_performance>>
    /\ UNCHANGED fnFrame

DecisionsFor(decisions, id) == {k \in 1..Len(decisions) : decisions[k].campaign_id = id}
FnActiveIds == {i \in 1..Len(fn_campaigns) : fn_campaigns[i].status = "active"}
FnRoas(i) ==
    IF i \in DOMAIN fn_performance.campaigns
    THEN fn_performance.campaigns[i].roas ELSE RInt(0)

\* C8: explore_mode_decisions returns at most 3 decisions, at most one per
\* campaign, only for active campaigns, each a budget_allocation whose
\* new_budget is >= min_campaign_budget; a campaign that gets a decision has
\* fewer than 3 active campaigns with a strictly lower ROAS (no ROAS is 0).
C8_ExploreAtMostThreeLowest ==
    fn_called = "explore" =>
        /\ Len(fn_decisions) <= 3
        /\ \A k \in 1..Len(fn_decisions) :
             LET d == fn_decisions[k]
             IN  /\ d.type = "budget_allocation"
                 /\ d.campaign_id \in FnActiveIds
                 /\ Cardinality(DecisionsFor(fn_decisions, d.campaign_id)) = 1
                 /\ d.old_budget = fn_campaigns[d.campaign_id].budget_allocated
                 /\ d.new_budget.n >= 100 * d.new_budget.d
                 /\ Cardinality({i \in FnActiveIds :
                        RLt(FnRoas(i), FnRoas(d.campaign_id))}) < 3

\* Four active campaigns, three decisions: the campaign left out has a
\* ROAS above that of a chosen one.
C8_Witness ==
    /\ fn_called = "explore"
    /\ Cardinality(FnActiveIds) = 4
    /\ Len(fn_decisions) = 3
    /\ \E i \in FnActiveIds :
         /\ DecisionsFor(fn_decisions, i) = {}
         /\ RLt(FnRoas(fn_decisions[1].campaign_id), FnRoas(i))

\* C10: exploit_mode_decisions decides each active campaign on its own ROAS
\* and budget b: ROAS > 3.0 gives one decision with new_budget =
\* min(1.1 b, 1.5 b); ROAS < 1.5 gives one decision with new_budget =
\* max(0.8 b, min_campaign_budget); ROAS in [1.5, 3.0] gives none; nothing
\* is decided for a campaign that is not active.
C10_ExploitPerCampaignRule ==
    fn_called = "exploit" =>
        /\ \A k \in 1..Len(fn_decisions) :
             /\ fn_decisions[k].type = "budget_allocation"
             /\ fn_decisions[k].campaign_id \in FnActiveIds
        /\ \A i \in FnActiveIds :
             LET b == fn_campaigns[i].budget_allocated
                 r == FnRoas(i)
                 ds == DecisionsFor(fn_decisions, i)
             IN  IF r.n > 3 * r.d
                 THEN /\ Cardinality(ds) = 1
                      /\ \A k \in ds :
                           /\ fn_decisions[k].old_budget = b
                           /\ fn_decisions[k].new_budget =
                                  RMin(Rat(11 * b.n, 10 * b.d), Rat(150 * b.n, 100 * b.d))
                 ELSE IF 2 * r.n < 3 * r.d
                 THEN /\ Cardinality(ds) = 1
                      /\ \A k \in ds :
                           /\ fn_decisions[k].old_budget = b
                           /\ fn_decisions[k].new_budget =
                                  RMax(Rat(8 * b.n, 10 * b.d), RInt(100))
                 ELSE ds = {}
        /\ \A i \in FnActiveIds :
             (fn_campaigns[i].budget_allocated = RInt(1000) /\ FnRoas(i) = RInt(4)) =>
                 \E k \in 1..Len(fn_decisions) :
                     /\ fn_decisions[k].campaign_id = i
                     /\ fn_decisions[k].new_budget = RInt(1100)
        /\ \A i \in FnActiveIds :
             (fn_campaigns[i].budget_allocated = RInt(800) /\ FnRoas(i) = RInt(1)) =>
                 \E k \in 1..Len(fn_decisions) :
                     /\ fn_decisions[k].campaign_id = i
                     /\ fn_decisions[k].new_budget = RInt(640)

\* The example of the tests: roas 4.0 / 1000 -> 1100 and roas 1.0 / 800 -> 640.
C10_Witness ==
    /\ fn_called = "exploit"
    /\ fn_campaigns = <<Campaign(1, "active", RInt(1000)), Campaign(2, "active", RInt(800))>>
    /\ FnRoas(1) = RInt(4)
    /\ FnRoas(2) = RInt(1)
    /\ Len(fn_decisions) = 2
    /\ fn_decisions[1].new_budget = RInt(1100)
    /\ fn_decisions[2].new_budget = RInt(640)

(***************************************************************************)
(* SKUIntelligence.make_hourly_decisions: one decision cycle of a SKU      *)
(* against the campaign store, the metric store and the decision log.      *)
(***************************************************************************)
MaxCycles == 2
\* Collaborator calls that fail (raise, or modify nothing) in one run.
MaxFailures == 1

\* db.skus: the SKU documents.
SkuStore == [sku1 |-> [client_id |-> "client1", status |-> "active"]]
SkuIds == {"sku1", "sku404"}

\* One $group result of the aggregation pipeline of get_sku_performance.
Metrics(spend, impressions, conversions, roas, points) ==
    [total_spend |-> spend, total_impressions |-> impressions,
     total_conversions |-> conversions, avg_roas |-> roas, data_points |-> points]

NoMetrics == Metrics(0, 0, 0, NoRoas, 0)
HighMetrics == Metrics(100, 5000, 400, RInt(4), 50)
LowMetrics == Metrics(100, 300, 100, RInt(1), 10)

EngineRow(status, budget, metrics) ==
    [status |-> status, budget |-> budget, metrics |-> metrics]

EngineRows ==
    {EngineRow("active", b, NoMetrics) : b \in {RInt(0), RInt(50), RInt(1000)}}
    \cup {EngineRow("active", b, HighMetrics) : b \in {RInt(50), RInt(1000)}}
    \cup {EngineRow("active", RInt(1000), LowMetrics),
          EngineRow("paused", RInt(1000), NoMetrics)}

\* The SKU has up to three campaigns.
EngineStores == UNION {[1..n -> EngineRows] : n \in 0..3}

MetricsOf(rows) ==
    [i \in {j \in 1..Len(rows) : rows[j].metrics # NoMetrics} |-> rows[i].metrics]

RECURSIVE SumInts(_)
SumInts(s) == IF s = <<>> THEN 0 ELSE Head(s) + SumInts(Tail(s))

\* The dict returned when the SKU has no campaign or a read raised.
EmptyPerformance == Performance(0, RInt(0), 0, RInt(0), <<>>)

\* get_sku_performance, lines 234-306; results are the $group results.
get_sku_performance(campaigns, results) ==
    IF campaigns = <<>>
    THEN EmptyPerformance
    ELSE LET ids == {i \in 1..Len(campaigns) : i \in DOMAIN results}
             column(f) == [i \in 1..Len(campaigns) |->
                              IF i \in ids THEN results[i][f] ELSE 0]
             total_spend == SumInts(column("total_spend"))
             total_impressions == SumInts(column("total_impressions"))
             total_conversions == SumInts(column("total_conversions"))
             total_data_points == SumInts(column("data_points"))
         IN  Performance(
                 7,
                 RMin(Rat(total_data_points, minimum_data_points_for_decisions), RInt(1)),
                 total_impressions,
                 IF total_spend > 0 THEN Rat(total_conversions, total_spend) ELSE RInt(0),
                 [i \in ids |-> [roas |-> results[i].avg_roas]])

EngineResult(success, mode, message, decisions, results) ==
    [success |-> success, mode |-> mode, message |-> message,
     decisions |-> decisions, execution_results |-> results]

\* Mutant: the failure record carries no message.
EngineFailure_NoMessage(message) == EngineResult(FALSE, "none", "", <<>>, <<>>)

EngineFailure(message) == EngineResult(FALSE, "none", message, <<>>, <<>>)
NoEngineResult == EngineFailure("")

\* get_campaigns_by_sku(sku_id): every campaign of the model belongs to sku1.
CampaignsOfSku(sku_id) == IF sku_id = "sku1" THEN db_campaigns ELSE <<>>

EngInitOver(stores) ==
    /\ \E rows \in stores :
         /\ db_campaigns = CampaignsOf(rows)
         /\ db_metrics = MetricsOf(rows)
    /\ db_decisions = <<>>
    /\ eng_pc = "idle"
    /\ eng_sku = "none"
    /\ eng_performance = EmptyPerformance
    /\ eng_mode = "none"
    /\ eng_campaigns = <<>>
    /\ eng_decisions = <<>>
    /\ eng_results = <<>>
    /\ eng_result = NoEngineResult
    /\ eng_calls = <<>>
    /\ eng_faults = {}
    /\ eng_changed = {}
    /\ eng_cycles = 0
    /\ eng_failures = 0

EngInit == EngInitOver(EngineStores)

EngIdle ==
    /\ db_campaigns = <<>>
    /\ db_metrics = <<>>
    /\ db_decisions = <<>>
    /\ eng_pc = "idle"
    /\ eng_sku = "none"
    /\ eng_performance = EmptyPerformance
    /\ eng_mode = "none"
    /\ eng_campaigns = <<>>
    /\ eng_decisions = <<>>
    /\ eng_results = <<>>
    /\ eng_result = NoEngineResult
    /\ eng_calls = <<>>
    /\ eng_faults = {}
    /\ eng_changed = {}
    /\ eng_cycles = 0
    /\ eng_failures = 0

\* A collaborator call ends in `out`; every outcome but `normal` is a failure.
Failing(out, normal) == out # normal
CanEndIn(out, normal) == Failing(out, normal) => eng_failures < MaxFailures
FailuresAfter(out, normal) ==
    IF Failing(out, normal) THEN eng_failures + 1 ELSE eng_failures

\* make_hourly_decisions(sku_id) is entered.
make_hourly_decisions(sku_id) ==
    /\ eng_pc = "idle"
    /\ eng_cycles < MaxCycles
    /\ eng_cycles' = eng_cycles + 1
    /\ eng_pc' = "get_sku"
    /\ eng_sku' = sku_id
    /\ eng_performance' = EmptyPerformance
    /\ eng_mode' = "none"
    /\ eng_campaigns' = <<>>
    /\ eng_decisions' = <<>>
    /\ eng_results' = <<>>
    /\ eng_result' = NoEngineResult
    /\ eng_calls' = <<>>
    /\ eng_faults' = {}
    /\ UNCHANGED <<db_campaigns, db_metrics, db_decisions, eng_changed, eng_failures>>
    /\ UNCHANGED engFrame

\* sku = await get_sku_by_id(sku_id), lines 34-36 (and 63-65 when it raises).
GetSku ==
    /\ eng_pc = "get_sku"
    /\ \E out \in {"ok", "raise"} :
         /\ CanEndIn(out, "ok")
         /\ eng_failures' = FailuresAfter(out, "ok")
         /\ IF out = "raise"
            THEN /\ eng_pc' = "done"
                 /\ eng_result' = EngineFailure("exception")
                 /\ eng_faults' = eng_faults \cup {"get_sku_by_id"}
            ELSE IF eng_sku \notin DOMAIN SkuStore
            THEN /\ eng_pc' = "done"
                 /\ eng_result' = EngineFailure("SKU not found")
                 /\ UNCHANGED eng_faults
            ELSE /\ eng_pc' = "get_performance"
                 /\ UNCHANGED <<eng_result, eng_faults>>
    /\ UNCHANGED <<db_campaigns, db_metrics, db_decisions, eng_sku,
                   eng_performance, eng_mode, eng_campaigns, eng_decisions,
                   eng_results, eng_calls, eng_changed, eng_cycles>>
    /\ UNCHANGED engFrame

\* performance = await self.get_sku_performance(sku_id): a read that raises
\* is swallowed at lines 308-317.
GetPerformance ==
    /\ eng_pc = "get_performance"
    /\ \E out \in {"ok", "raise"} :
         /\ CanEndIn(out, "ok")
         /\ eng_failures' = FailuresAfter(out, "ok")
         /\ IF out = "raise"
            THEN /\ eng_performance' = EmptyPerformance
                 /\ eng_faults' = eng_faults \cup {"get_sku_performance"}
            ELSE /\ eng_performance' =
                        get_sku_performance(CampaignsOfSku(eng_sku), db_metrics)
                 /\ UNCHANGED eng_faults
    /\ eng_pc' = "decide"
    /\ UNCHANGED <<db_campaigns, db_metrics, db_decisions, eng_sku, eng_mode,
                   eng_campaigns, eng_decisions, eng_results, eng_result,
                   eng_calls, eng_changed, eng_cycles>>
    /\ UNCHANGED engFrame

\* Lines 42-48: determine_mode, then the decision function of that mode,
\* which reads the campaigns of the SKU.
Decide ==
    /\ eng_pc = "decide"
    /\ LET mode == determine_mode(eng_performance)
       IN  /\ eng_mode' = mode
           /\ \E out \in {"ok", "raise"} :
                /\ CanEndIn(out, "ok")
                /\ eng_failures' = FailuresAfter(out, "ok")
                /\ IF out = "raise"
                   THEN /\ eng_pc' = "done"
                        /\ eng_result' = EngineFailure("exception")
                        /\ eng_faults' = eng_faults \cup {"get_campaigns_by_sku"}
                        /\ UNCHANGED <<eng_campaigns, eng_decisions>>
                   ELSE /\ eng_pc' = "execute"
                        /\ eng_campaigns' = CampaignsOfSku(eng_sku)
                        /\ eng_decisions' =
                               IF mode = "explore"
                               THEN explore_mode_decisions(CampaignsOfSku(eng_sku),
                                                           eng_performance)
                               ELSE exploit_mode_decisions(CampaignsOfSku(eng_sku),
                                                           eng_performance)
                        /\ UNCHANGED <<eng_result, eng_faults>>
    /\ UNCHANGED <<db_campaigns, db_metrics, db_decisions, eng_sku,
                   eng_performance, eng_results, eng_calls, eng_changed, eng_cycles>>
    /\ UNCHANGED engFrame

\* What one awaited write to the campaign collection can do: the document is
\* modified, no document is modified (modified_count = 0), or the call raises.
WriteOutcomes == {"modified", "unmatched", "raise"}

StoreCall(fn, decision, out) ==
    [target |-> "app.db.campaign_queries", fn |-> fn,
     campaign_id |-> decision.campaign_id, out |-> out]

ExecutionResult(decision, success, message) ==
    [decision |-> decision, success |-> success, message |-> message]

\* campaign_queries.update_campaign_budget / pause_campaign / activate_campaign:
\* the $set of the matched document.
StoreAfter(store, decision, out) ==
    IF out # "modified" \/ decision.campaign_id \notin DOMAIN store
    THEN store
    ELSE CASE decision.type = "budget_allocation" ->
                [store EXCEPT ![decision.campaign_id].budget_allocated = decision.new_budget]
           [] decision.type = "pause_campaign" ->
                [store EXCEPT ![decision.campaign_id].status = "paused"]
           [] decision.type = "activate_campaign" ->
                [store EXCEPT ![decision.campaign_id].status = "active"]
           [] OTHER -> store

\* The function of campaign_queries that execute_decisions calls for a decision.
StoreFunction(decision) ==
    CASE decision.type = "budget_allocation" -> "update_campaign_budget"
      [] decision.type = "pause_campaign" -> "pause_campaign"
      [] decision.type = "activate_campaign" -> "activate_campaign"
      [] OTHER -> "none"

\* Mutant: the decision is handed to the middleware and the store is not written.
ExecuteCall_ViaMiddleware(decision, out) ==
    [target |-> "app.integrations.middleware", fn |-> "execute_budget_change",
     campaign_id |-> decision.campaign_id, out |-> out]

\* The call execute_decisions makes for one decision (lines 194-214).
ExecuteCall(decision, out) == StoreCall(StoreFunction(decision), decision, out)

\* The result execute_decisions appends for one decision (lines 199-226).
ResultFor(decision, out) ==
    IF out = "raise"
    THEN ExecutionResult(decision, FALSE, "Execution error")
    ELSE CASE decision.type = "budget_allocation" ->
                ExecutionResult(decision, out = "modified",
                    IF out = "modified" THEN "Budget updated successfully"
                    ELSE "Budget update failed")
           [] decision.type = "pause_campaign" ->
                ExecutionResult(decision, out = "modified",
                    IF out = "modified" THEN "Campaign paused successfully"
                    ELSE "Campaign pause failed")
           [] decision.type = "activate_campaign" ->
                ExecutionResult(decision, out = "modified",
                    IF out = "modified" THEN "Campaign activated successfully"
                    ELSE "Campaign activation failed")

\* One iteration of the loop of execute_decisions.
ExecuteDecision ==
    /\ eng_pc = "execute"
    /\ Len(eng_results) < Len(eng_decisions)
    /\ LET decision == eng_decisions[Len(eng_results) + 1]
       IN  \E out \in WriteOutcomes :
             LET call == ExecuteCall(decision, out)
                 written == call.target = "app.db.campaign_queries"
             IN  /\ CanEndIn(out, "modified")
                 /\ eng_failures' = FailuresAfter(out, "modified")
                 /\ eng_calls' = Append(eng_calls, call)
                 /\ db_campaigns' =
                        IF written THEN StoreAfter(db_campaigns, decision, out)
                        ELSE db_campaigns
                 /\ eng_changed' =
                        IF written /\ out = "modified"
                               /\ decision.type = "budget_allocation"
                        THEN eng_changed \cup {decision.campaign_id}
                        ELSE eng_changed
                 /\ eng_results' = Append(eng_results, ResultFor(decision, out))
    /\ UNCHANGED <<db_metrics, db_decisions, eng_pc, eng_sku, eng_performance,
                   eng_mode, eng_campaigns, eng_decisions, eng_result,
                   eng_faults, eng_cycles>>
    /\ UNCHANGED engFrame

\* Mutant: the record is written without the execution results.
DecisionLog_NoResults(sku_id, client_id, decisions, mode, results) ==
    [sku_id |-> sku_id, client_id |-> client_id,
     decision_type |-> "hourly_optimization", mode |-> mode,
     decisions |-> decisions, execution_results |-> <<>>,
     data_points_used |-> 0]

\* The record log_decisions inserts (lines 323-333).
DecisionLog(sku_id, client_id, decisions, mode, results) ==
    [sku_id |-> sku_id, client_id |-> client_id,
     decision_type |-> "hourly_optimization", mode |-> mode,
     decisions |-> decisions, execution_results |-> results,
     data_points_used |-> 0]

\* await self.log_decisions(...) and the return of lines 56-61; an insert
\* that raises is swallowed at lines 337-338.
LogDecisions ==
    /\ eng_pc = "execute"
    /\ Len(eng_results) = Len(eng_decisions)
    /\ \E out \in {"ok", "raise"} :
         /\ CanEndIn(out, "ok")
         /\ eng_failures' = FailuresAfter(out, "ok")
         /\ db_decisions' =
                IF out = "ok"
                THEN Append(db_decisions,
                         DecisionLog(eng_sku, SkuStore[eng_sku].client_id,
                                     eng_decisions, eng_mode, eng_results))
                ELSE db_decisions
         /\ eng_faults' =
                IF out = "ok" THEN eng_faults ELSE eng_faults \cup {"insert_one"}
    /\ eng_result' = EngineResult(TRUE, eng_mode, "", eng_decisions, eng_results)
    /\ eng_pc' = "done"
    /\ UNCHANGED <<db_campaigns, db_metrics, eng_sku, eng_performance, eng_mode,
                   eng_campaigns, eng_decisions, eng_results, eng_calls,
                   eng_changed, eng_cycles>>
    /\ UNCHANGED engFrame

\* The caller has the result; the engine is ready for the next cycle.
EngReturn ==
    /\ eng_pc = "done"
    /\ eng_pc' = "idle"
    /\ UNCHANGED <<db_campaigns, db_metrics, db_decisions, eng_sku,
                   eng_performance, eng_mode, eng_campaigns, eng_decisions,
                   eng_results, eng_result, eng_calls, eng_faults, eng_changed,
                   eng_cycles, eng_failures>>
    /\ UNCHANGED engFrame

EngNext ==
    \/ \E sku_id \in SkuIds : make_hourly_decisions(sku_id)
    \/ GetSku
    \/ GetPerformance
    \/ Decide
    \/ ExecuteDecision
    \/ LogDecisions
    \/ EngReturn

(***************************************************************************)
(* SKUIntelligence.execute_decisions on any list of decisions.             *)
(***************************************************************************)
MaxDecisions == 3

\* The types the if/elif chain of lines 194-214 knows.
KnownDecisionTypes == {"budget_allocation", "pause_campaign", "activate_campaign"}

TypedDecision(type, campaign_id) ==
    [type |-> type, campaign_id |-> campaign_id,
     old_budget |-> RInt(100), new_budget |-> RInt(200), reason |-> <<type>>]

DecisionDomain ==
    {TypedDecision(type, id) :
        type \in KnownDecisionTypes \cup {"archive_campaign"}, id \in {1, 2}}

ExInit ==
    /\ ex_decisions \in UNION {[1..n -> DecisionDomain] : n \in 0..MaxDecisions}
    /\ ex_pos = 0
    /\ ex_results = <<>>
    /\ ex_calls = <<>>
    /\ ex_returned = FALSE

ExIdle ==
    /\ ex_decisions = <<>>
    /\ ex_pos = 0
    /\ ex_results = <<>>
    /\ ex_calls = <<>>
    /\ ex_returned = FALSE

\* One iteration of `for decision in decisions` (lines 192-226): a decision of
\* a known type calls its collaborator and appends one result; a decision of
\* any other type matches no branch, so nothing is called and nothing appended.
ExecuteStep ==
    /\ ~ex_returned
    /\ ex_pos < Len(ex_decisions)
    /\ ex_pos' = ex_pos + 1
    /\ LET decision == ex_decisions[ex_pos + 1]
       IN  IF decision.type \in KnownDecisionTypes
           THEN \E out \in WriteOutcomes :
                  /\ ex_calls' = Append(ex_calls,
                                    <<ex_pos + 1, ExecuteCall(decision, out)>>)
                  /\ ex_results' = Append(ex_results, ResultFor(decision, out))
           ELSE UNCHANGED <<ex_calls, ex_results>>
    /\ UNCHANGED <<ex_decisions, ex_returned>>
    /\ UNCHANGED exFrame

\* return results (line 228)
ExecuteReturn ==
    /\ ~ex_returned
    /\ ex_pos = Len(ex_decisions)
    /\ ex_returned' = TRUE
    /\ UNCHANGED <<ex_decisions, ex_pos, ex_results, ex_calls>>
    /\ UNCHANGED exFrame

ExNext ==
    \/ ExecuteStep
    \/ ExecuteReturn

CallsOf(position) == {k \in 1..Len(ex_calls) : ex_calls[k][1] = position}

\* The calls are made in list order.
ExCallsInListOrder ==
    \A j, k \in 1..Len(ex_calls) : j < k => ex_calls[j][1] < ex_calls[k][1]

\* C11: execute_decisions goes through the decisions in list order and, for
\* any list of decisions and any pattern of the collaborator returning true,
\* returning false or raising, returns as many results as decisions, the i-th
\* about the i-th decision; a raising call gives a success=false result and
\* every decision is executed exactly once.
C11_ResultsOneToOne ==
    ex_returned =>
        /\ Len(ex_results) = Len(ex_decisions)
        /\ ExCallsInListOrder
        /\ \A i \in 1..Len(ex_decisions) :
             /\ ex_results[i].decision = ex_decisions[i]
             /\ Cardinality(CallsOf(i)) = 1
             /\ \A k \in CallsOf(i) :
                  /\ ex_calls[k][2].out = "raise" => ~ex_results[i].success
                  /\ ex_results[i].success <=> ex_calls[k][2].out = "modified"

\* What holds of C11 when every decision has one of the three known types.
C11_KnownTypesOneToOne ==
    (\A i \in 1..Len(ex_decisions) : ex_decisions[i].type \in KnownDecisionTypes)
        => C11_ResultsOneToOne

(***************************************************************************)
(* IntelligenceScheduler: start_hourly_optimization and stop_optimization.  *)
(***************************************************************************)
MaxSkus == 3
MaxPasses == 2

\* Mutant: an exception of the cycle escapes make_hourly_decisions.
CycleOutcomes_Raising == {"success", "failure", "raise"}

\* What make_hourly_decisions gives back to the scheduler: a dict with
\* success true or false; every Exception is caught at its lines 63-65.
CycleOutcomes == {"success", "failure"}

\* sku_collection.find({"status": "active"}).to_list(1000)
ActiveSkus(store) == SelectSeq([i \in 1..Len(store) |-> i],
                               LAMBDA i : store[i] = "active")

CycleEvent(sku, after_stop) ==
    [sku |-> sku, outcome |-> "running", after_stop |-> after_stop]

SchInit ==
    /\ sch_store \in UNION {[1..n -> {"active", "paused"}] : n \in 0..MaxSkus}
    /\ sch_running = FALSE
    /\ sch_pc = "idle"
    /\ sch_skus = <<>>
    /\ sch_pos = 0
    /\ sch_pass = 0
    /\ sch_log = <<>>
    /\ sch_stopped = FALSE
    /\ sch_stop_pass = 0

SchIdle ==
    /\ sch_store = <<>>
    /\ sch_running = FALSE
    /\ sch_pc = "idle"
    /\ sch_skus = <<>>
    /\ sch_pos = 0
    /\ sch_pass = 0
    /\ sch_log = <<>>
    /\ sch_stopped = FALSE
    /\ sch_stop_pass = 0

\* self.running = True (line 349)
start_hourly_optimization ==
    /\ sch_pc = "idle"
    /\ sch_running' = TRUE
    /\ sch_pc' = "loop"
    /\ UNCHANGED <<sch_store, sch_skus, sch_pos, sch_pass, sch_log,
                   sch_stopped, sch_stop_pass>>
    /\ UNCHANGED schFrame

\* `while self.running` holds: the active SKUs are read (lines 352-356); a
\* read that raises is caught at line 371 and the loop sleeps 300 s.
Enumerate ==
    /\ sch_pc = "loop"
    /\ sch_running
    /\ sch_pass < MaxPasses
    /\ sch_pass' = sch_pass + 1
    /\ sch_log' = <<>>
    /\ sch_pos' = 0
    /\ \E out \in {"ok", "raise"} :
         IF out = "ok"
         THEN /\ sch_skus' = ActiveSkus(sch_store)
              /\ sch_pc' = "pass"
         ELSE /\ sch_skus' = <<>>
              /\ sch_pc' = "retry_sleep"
    /\ UNCHANGED <<sch_store, sch_running, sch_stopped, sch_stop_pass>>
    /\ UNCHANGED schFrame

\* `while self.running` fails: the coroutine returns.
LoopExit ==
    /\ sch_pc = "loop"
    /\ ~sch_running
    /\ sch_pc' = "exited"
    /\ UNCHANGED <<sch_store, sch_running, sch_skus, sch_pos, sch_pass,
                   sch_log, sch_stopped, sch_stop_pass>>
    /\ UNCHANGED schFrame

\* The for loop takes the next SKU and awaits its cycle (lines 359-361);
\* self.running is not read here.
StartCycle ==
    /\ sch_pc = "pass"
    /\ sch_pos < Len(sch_skus)
    /\ sch_log' = Append(sch_log, CycleEvent(sch_skus[sch_pos + 1], sch_stopped))
    /\ sch_pc' = "cycle"
    /\ UNCHANGED <<sch_store, sch_running, sch_skus, sch_pos, sch_pass,
                   sch_stopped, sch_stop_pass>>
    /\ UNCHANGED schFrame

\* The cycle returns and its outcome is logged (lines 363-366); an exception
\* out of the cycle would leave the for loop through line 371.
FinishCycle ==
    /\ sch_pc = "cycle"
    /\ \E outcome \in CycleOutcomes :
         /\ sch_log' = [sch_log EXCEPT ![Len(sch_log)].outcome = outcome]
         /\ IF outcome = "raise"
            THEN sch_pc' = "retry_sleep" /\ UNCHANGED sch_pos
            ELSE sch_pc' = "pass" /\ sch_pos' = sch_pos + 1
    /\ UNCHANGED <<sch_store, sch_running, sch_skus, sch_pass,
                   sch_stopped, sch_stop_pass>>
    /\ UNCHANGED schFrame

\* The for loop is through: await asyncio.sleep(3600) (line 369).
PassDone ==
    /\ sch_pc = "pass"
    /\ sch_pos = Len(sch_skus)
    /\ sch_pc' = "sleep"
    /\ UNCHANGED <<sch_store, sch_running, sch_skus, sch_pos, sch_pass,
                   sch_log, sch_stopped, sch_stop_pass>>
    /\ UNCHANGED schFrame

\* A sleep (3600 s, or 300 s after an error) is over: back to the loop test.
Wake ==
    /\ sch_pc \in {"sleep", "retry_sleep"}
    /\ sch_pc' = "loop"
    /\ UNCHANGED <<sch_store, sch_running, sch_skus, sch_pos, sch_pass,
                   sch_log, sch_stopped, sch_stop_pass>>
    /\ UNCHANGED schFrame

\* Mutant: the flag is left set.
stop_optimization_FlagKept ==
    /\ sch_pc \notin {"idle", "exited"}
    /\ ~sch_stopped
    /\ sch_stopped' = TRUE
    /\ sch_stop_pass' = sch_pass
    /\ UNCHANGED <<sch_store, sch_running, sch_pc, sch_skus, sch_pos,
                   sch_pass, sch_log>>
    /\ UNCHANGED schFrame

\* stop_optimization (lines 375-378), called while the loop runs.
stop_optimization ==
    /\ sch_pc \notin {"idle", "exited"}
    /\ ~sch_stopped
    /\ sch_running' = FALSE
    /\ sch_stopped' = TRUE
    /\ sch_stop_pass' = sch_pass
    /\ UNCHANGED <<sch_store, sch_pc, sch_skus, sch_pos, sch_pass, sch_log>>
    /\ UNCHANGED schFrame

\* The steps of the start_hourly_optimization coroutine.
SchRun ==
    \/ Enumerate
    \/ LoopExit
    \/ StartCycle
    \/ FinishCycle
    \/ PassDone
    \/ Wake

SchNext ==
    \/ start_hourly_optimization
    \/ Enumerate
    \/ LoopExit
    \/ StartCycle
    \/ FinishCycle
    \/ PassDone
    \/ Wake
    \/ stop_optimization

(***************************************************************************)
(* IntegrationMiddleware._calculate_data_quality_score.                    *)
(***************************************************************************)
MaxSources == 3

\* A key the payload does not hold.
Absent == [absent |-> TRUE]

\* data.get(key, 0)
GetOrZero(data, key) == IF data[key] = Absent THEN RInt(0) ELSE data[key]

RECURSIVE SumSquaredDeviations(_, _)
SumSquaredDeviations(values, mean) ==
    IF values = <<>>
    THEN RInt(0)
    ELSE RAdd(RMul(RSub(Head(values), mean), RSub(Head(values), mean)),
              SumSquaredDeviations(Tail(values), mean))

\* Mutant: the sample variance (divided by n - 1).
calculate_variance_Sample(values) ==
    IF Len(values) <= 1
    THEN RInt(0)
    ELSE LET mean == RDiv(RSum(values), RInt(Len(values)))
             variance == RDiv(SumSquaredDeviations(values, mean),
                              RInt(Len(values) - 1))
         IN  IF mean # RInt(0) THEN RDiv(variance, RMul(mean, mean)) ELSE RInt(0)

\* _calculate_variance (lines 443-450)
calculate_variance(values) ==
    IF Len(values) <= 1
    THEN RInt(0)
    ELSE LET mean == RDiv(RSum(values), RInt(Len(values)))
             variance == RDiv(SumSquaredDeviations(values, mean),
                              RInt(Len(values)))
         IN  IF mean # RInt(0) THEN RDiv(variance, RMul(mean, mean)) ELSE RInt(0)

\* _calculate_data_quality_score (lines 419-441)
calculate_data_quality_score(data_sources) ==
    IF data_sources = <<>>
    THEN RInt(0)
    ELSE IF Len(data_sources) = 1
    THEN Rat(8, 10)
    ELSE LET source_data == [i \in 1..Len(data_sources) |-> data_sources[i][2]]
             spend_values ==
                 [i \in 1..Len(source_data) |-> GetOrZero(source_data[i], "spend")]
             impression_values ==
                 [i \in 1..Len(source_data) |-> GetOrZero(source_data[i], "impressions")]
             spend_variance == calculate_variance(spend_values)
             impression_variance == calculate_variance(impression_values)
             quality_score ==
                 RMax(RInt(0),
                      RSub(RInt(1),
                           RDiv(RAdd(spend_variance, impression_variance), RInt(2))))
         IN  RMin(quality_score, RInt(1))

SourceNames == <<"integrator", "platform", "extra">>

\* The name of the i-th source; sources past the named ones are "extra" too.
SourceName(i) == IF i <= Len(SourceNames) THEN SourceNames[i] ELSE "extra"

SourceData ==
    [spend : {Absent, RInt(0), RInt(100), RInt(300)},
     impressions : {Absent, RInt(0), RInt(1000)}]

QsInputs ==
    UNION {{[i \in 1..n |-> <<SourceName(i), data[i]>>] : data \in [1..n -> SourceData]}
              : n \in 0..MaxSources}

QsInit ==
    /\ qs_sources \in QsInputs
    /\ qs_called = FALSE
    /\ qs_score = RInt(0)

QsIdle ==
    /\ qs_sources = <<>>
    /\ qs_called = FALSE
    /\ qs_score = RInt(0)

QualityScoreCall ==
    /\ ~qs_called
    /\ qs_called' = TRUE
    /\ qs_score' = calculate_data_quality_score(qs_sources)
    /\ UNCHANGED qs_sources
    /\ UNCHANGED qsFrame

QsNext == QualityScoreCall

QsValues(key) ==
    [i \in 1..Len(qs_sources) |-> GetOrZero(qs_sources[i][2], key)]

\* Population variance over mean squared, as E[x^2] - E[x]^2 over E[x]^2.
CoefficientOfVariation(values) ==
    IF Len(values) <= 1
    THEN RInt(0)
    ELSE LET n == RInt(Len(values))
             mean == RDiv(RSum(values), n)
             mean_of_squares ==
                 RDiv(RSum([i \in 1..Len(values) |-> RMul(values[i], values[i])]), n)
         IN  IF mean = RInt(0)
             THEN RInt(0)
             ELSE RDiv(RSub(mean_of_squares, RMul(mean, mean)), RMul(mean, mean))

QsUnclamped ==
    RSub(RInt(1),
         RDiv(RAdd(CoefficientOfVariation(QsValues("spend")),
                   CoefficientOfVariation(QsValues("impressions"))), RInt(2)))

\* C15: the score is 0.0 for no source, 0.8 for one source, and for two or
\* more 1 - (cv(spend) + cv(impressions)) / 2 clamped to [0, 1], cv being the
\* population variance over the squared mean (0 for a zero mean); two sources
\* with the same spend and impressions score 1.0; the score is within [0, 1].
C15_QualityScore ==
    qs_called =>
        /\ Len(qs_sources) = 0 => qs_score = RInt(0)
        /\ Len(qs_sources) = 1 => qs_score = Rat(8, 10)
        /\ Len(qs_sources) >= 2 =>
              qs_score = (IF RLt(QsUnclamped, RInt(0)) THEN RInt(0)
                          ELSE IF RLt(RInt(1), QsUnclamped) THEN RInt(1)
                          ELSE QsUnclamped)
        /\ (/\ Len(qs_sources) = 2
            /\ QsValues("spend")[1] = QsValues("spend")[2]
            /\ QsValues("impressions")[1] = QsValues("impressions")[2])
              => qs_score = RInt(1)
        /\ RLe(RInt(0), qs_score)
        /\ RLe(qs_score, RInt(1))

\* Two sources that disagree on spend only: cv 0.25, score 0.875.
C15_Witness ==
    /\ qs_called
    /\ Len(qs_sources) = 2
    /\ QsValues("spend") = <<RInt(100), RInt(300)>>
    /\ QsValues("impressions") = <<RInt(1000), RInt(1000)>>
    /\ qs_score = Rat(7, 8)

\* Three sources so far apart that the score is clamped at 0.
C15_WitnessClamped ==
    /\ qs_called
    /\ Len(qs_sources) = 3
    /\ RLt(QsUnclamped, RInt(0))
    /\ qs_score = RInt(0)

(***************************************************************************)
(* IntegrationMetricsService.normalize_payload.                            *)
(* A payload value is absent, None, a number, a string holding a number    *)
(* ("40", "12.5") or any other string ("n/a").                             *)
(***************************************************************************)
MaxNormalizeCalls == 2
MaxClock == 1

Null == [kind |-> "null", val |-> RInt(0)]
Num(r) == [kind |-> "num", val |-> r]
NumStr(r) == [kind |-> "numstr", val |-> r]
Text == [kind |-> "text", val |-> RInt(0)]

\* The outcome of an expression that raised.
Raised == [raised |-> TRUE]

PayloadKeys ==
    {"spend", "total_spend", "cost", "impressions", "total_impressions",
     "clicks", "total_clicks", "conversions", "total_conversions",
     "ctr", "cpc", "roas", "cpm", "data_quality_score"}

\* bool(v) of Python: None, 0 and 0.0 are falsy, a non-empty string is truthy.
Truthy(v) ==
    /\ v # Absent
    /\ \/ v.kind \in {"numstr", "text"}
       \/ v.kind = "num" /\ v.val # RInt(0)

\* payload.get(k1) or payload.get(k2) or ... or 0: the first truthy operand,
\* else the last one.
RECURSIVE FirstTruthy(_, _)
FirstTruthy(payload, keys) ==
    IF keys = <<>>
    THEN Num(RInt(0))
    ELSE IF Truthy(payload[Head(keys)])
    THEN payload[Head(keys)]
    ELSE FirstTruthy(payload, Tail(keys))

\* float(v): a number or a string holding one; ValueError for other strings.
ToFloat(v) == IF v.kind \in {"num", "numstr"} THEN v.val ELSE Raised

Truncate(r) == IF r.n >= 0 THEN r.n \div r.d ELSE -((-r.n) \div r.d)

\* int(v): a number is truncated; a string must hold an integer literal
\* (int("12.5") is a ValueError).
ToInt(v) ==
    CASE v.kind = "num" -> RInt(Truncate(v.val))
      [] v.kind = "numstr" -> IF v.val.d = 1 THEN v.val ELSE Raised
      [] OTHER -> Raised

\* Validation of the float field data_quality_score by the NormalizedMetrics
\* model: a number or a numeric string is accepted, None and other strings
\* are a ValidationError; the key missing gives the default 0.0.
ValidatedFloat(v) ==
    IF v = Absent THEN RInt(0)
    ELSE IF v.kind \in {"num", "numstr"} THEN v.val
    ELSE Raised

\* Mutant: the record is not stamped with the time of its construction.
AggregatedAt_Fixed(clock) == 0

\* aggregated_at: datetime = Field(default_factory=datetime.utcnow)
AggregatedAt(clock) == clock

\* numerator / denominator [* scale] if denominator > 0 else float(payload.get(key) or 0.0)
DerivedMetric(numerator, denominator, scale, payload, key) ==
    IF numerator = Raised \/ denominator = Raised
    THEN Raised
    ELSE IF RLt(RInt(0), denominator)
    THEN RMul(RDiv(numerator, denominator), RInt(scale))
    ELSE ToFloat(FirstTruthy(payload, <<key>>))

\* normalize_payload (lines 26-54), called at time `clock`.
normalize_payload(vendor, payload, campaign_id, platform, account_id, date_range, clock) ==
    LET spend == ToFloat(FirstTruthy(payload, <<"spend", "total_spend", "cost">>))
        impressions == ToInt(FirstTruthy(payload, <<"impressions", "total_impressions">>))
        clicks == ToInt(FirstTruthy(payload, <<"clicks", "total_clicks">>))
        conversions == ToInt(FirstTruthy(payload, <<"conversions", "total_conversions">>))
        ctr == DerivedMetric(clicks, impressions, 100, payload, "ctr")
        cpc == DerivedMetric(spend, clicks, 1, payload, "cpc")
        roas == DerivedMetric(conversions, spend, 1, payload, "roas")
        cpm == DerivedMetric(spend, impressions, 1000, payload, "cpm")
        data_quality_score == ValidatedFloat(payload["data_quality_score"])
    IN  IF Raised \in {spend, impressions, clicks, conversions, ctr, cpc, roas,
                       cpm, data_quality_score}
        THEN Raised
        ELSE [vendor |-> vendor, campaign_id |-> campaign_id,
              platform |-> platform, account_id |-> account_id,
              start |-> date_range[1], end |-> date_range[2],
              spend |-> spend, impressions |-> impressions, clicks |-> clicks,
              conversions |-> conversions, ctr |-> ctr, cpc |-> cpc,
              roas |-> roas, cpm |-> cpm,
              data_quality_score |-> data_quality_score,
              aggregated_at |-> AggregatedAt(clock)]

EmptyPayload == [k \in PayloadKeys |-> Absent]

PayloadValues ==
    {Null, Num(RInt(0)), Num(RInt(100)), Num(Rat(25, 2)),
     NumStr(RInt(40)), NumStr(Rat(25, 2)), Text}

\* A connector's report with every primary key a positive number.
FullPayload ==
    [EmptyPayload EXCEPT !["spend"] = Num(RInt(100)),
                         !["impressions"] = Num(RInt(1000)),
                         !["clicks"] = Num(RInt(50)),
                         !["conversions"] = Num(RInt(400))]

\* The payloads drawn: no key, one key or two keys set, and the full report.
PayloadDomain ==
    {[[EmptyPayload EXCEPT ![k1] = v1] EXCEPT ![k2] = v2] :
        k1 \in PayloadKeys, v1 \in PayloadValues \cup {Absent},
        k2 \in PayloadKeys, v2 \in PayloadValues \cup {Absent}}
    \cup {FullPayload}

NzInit ==
    /\ nz_payload \in PayloadDomain
    /\ nz_clock = 0
    /\ nz_calls = <<>>

NzIdle ==
    /\ nz_payload = EmptyPayload
    /\ nz_clock = 0
    /\ nz_calls = <<>>

NormalizeCall ==
    /\ Len(nz_calls) < MaxNormalizeCalls
    /\ nz_calls' = Append(nz_calls,
           [at |-> nz_clock,
            result |-> normalize_payload("integrator", nz_payload, "c1",
                           "google_ads", "a1", <<0, 7>>, nz_clock)])
    /\ UNCHANGED <<nz_payload, nz_clock>>
    /\ UNCHANGED nzFrame

\* Time passes between calls.
NzTick ==
    /\ nz_clock < MaxClock
    /\ nz_clock' = nz_clock + 1
    /\ UNCHANGED <<nz_payload, nz_calls>>
    /\ UNCHANGED nzFrame

NzNext ==
    \/ NormalizeCall
    \/ NzTick

\* C18: normalize_payload is total: whatever keys the payload holds and
\* whatever their values (absent, null, zero, numeric, non-numeric), it
\* returns a NormalizedMetrics record and never raises.
C18_NormalizeNeverRaises ==
    \A i \in 1..Len(nz_calls) : nz_calls[i].result # Raised

\* C19 as stated: two applications of normalize_payload to the same arguments,
\* at any two times, give records equal in every field.
C19_TwoCallsIdentical ==
    \A i, j \in 1..Len(nz_calls) : nz_calls[i].result = nz_calls[j].result

WithoutTimestamp(record) ==
    [f \in DOMAIN record \ {"aggregated_at"} |-> record[f]]

\* C19: two applications of normalize_payload to the same arguments, at any
\* two times, either both raise or give records equal in every field but
\* aggregated_at, which holds the time of the application.
C19_EqualButForTimestamp ==
    \A i, j \in 1..Len(nz_calls) :
        IF nz_calls[i].result = Raised
        THEN nz_calls[j].result = Raised
        ELSE /\ nz_calls[j].result # Raised
             /\ WithoutTimestamp(nz_calls[i].result)
                   = WithoutTimestamp(nz_calls[j].result)
             /\ nz_calls[i].result.aggregated_at = nz_calls[i].at

\* The full report normalized at two different times.
C19_Witness ==
    /\ nz_payload = FullPayload
    /\ Len(nz_calls) = 2
    /\ nz_calls[1].at # nz_calls[2].at
    /\ nz_calls[1].result # Raised
    /\ nz_calls[1].result.ctr = RInt(5)
    /\ nz_calls[1].result.roas = RInt(4)
    /\ nz_calls[1].result # nz_calls[2].result

(***************************************************************************)
(* IntegrationMiddleware.aggregate_performance_data.                       *)
(***************************************************************************)
MaxAggregations == 1

\* None, or any other falsy value a connector gives back.
NoData == [none |-> TRUE]

\* Reports a connector can give back: the full report, one that differs in
\* spend, and one whose spend is not a number.
AltPayload == [FullPayload EXCEPT !["spend"] = Num(RInt(300))]
BadPayload == [FullPayload EXCEPT !["spend"] = Text]
ReportedPayloads == {FullPayload, AltPayload, BadPayload}

\* The amounts of FullPayload and of AltPayload under the keys
\* normalize_payload accepts in place of spend and impressions.
AliasPayload ==
    [FullPayload EXCEPT !["spend"] = Absent,
                        !["total_spend"] = Num(RInt(100)),
                        !["impressions"] = Absent,
                        !["total_impressions"] = Num(RInt(1000))]
CostPayload ==
    [FullPayload EXCEPT !["spend"] = Absent,
                        !["cost"] = Num(RInt(300)),
                        !["impressions"] = Absent,
                        !["total_impressions"] = Num(RInt(1000))]

\* Reports of connectors of which some use the aliases.
AliasedPayloads == {FullPayload, AltPayload, AliasPayload, CostPayload}

\* What one awaited get_performance_metrics can do.
MetricOutcomes == {"data", "empty", "raise"}

AggCampaign == "c1"
AggPlatform == "google_ads"
AggAccount == "a1"
AggWindow == <<0, 7>>

AggregatedData(sources, spend, impressions, clicks, conversions, score) ==
    [campaign_id |-> AggCampaign, platform |-> AggPlatform, sources |-> sources,
     total_spend |-> spend, total_impressions |-> impressions,
     total_clicks |-> clicks, total_conversions |-> conversions,
     data_quality_score |-> score]

\* aggregated_data as built at lines 85-95.
EmptyAggregate ==
    AggregatedData(<<>>, RInt(0), RInt(0), RInt(0), RInt(0), RInt(0))

AggResult(success, message, data) ==
    [success |-> success, message |-> message, data |-> data]

NoAggResult == AggResult(FALSE, "", EmptyAggregate)

\* The document save_raw inserts (lines 15-24).
RawRecord(vendor, payload) ==
    [vendor |-> vendor, campaign_id |-> AggCampaign, platform |-> AggPlatform,
     account_id |-> AggAccount, payload |-> payload,
     start |-> AggWindow[1], end |-> AggWindow[2]]

AggIntegratorOrder == <<"adroll", "stackadapt", "adespresso">>

AggLocalsCleared ==
    /\ agg_it = 0
    /\ agg_attempts = 0
    /\ agg_integrator_data = NoData
    /\ agg_platform_data = NoData
    /\ agg_sources = <<>>
    /\ agg_pos = 0
    /\ agg_data = EmptyAggregate
    /\ agg_normalized = Raised
    /\ agg_trace = <<>>

\* The registries drawn, the stores empty; `reports` is what the connectors
\* can give back.
AggInitOver(reports) ==
    /\ agg_reports = reports
    /\ agg_integrators \in
          UNION {{[i \in 1..n |-> [name |-> AggIntegratorOrder[i],
                                   has_metrics |-> has[i]]] :
                     has \in [1..n -> BOOLEAN]} : n \in 0..MaxIntegrators}
    /\ agg_registered \in BOOLEAN
    /\ db_raw = <<>>
    /\ db_norm = <<>>
    /\ agg_pc = "idle"
    /\ AggLocalsCleared
    /\ agg_result = NoAggResult
    /\ agg_calls = 0

AggInit == AggInitOver(ReportedPayloads)

AggAliasInit == AggInitOver(AliasedPayloads)

AggIdle ==
    /\ agg_reports = {}
    /\ agg_integrators = <<>>
    /\ agg_registered = FALSE
    /\ db_raw = <<>>
    /\ db_norm = <<>>
    /\ agg_pc = "idle"
    /\ AggLocalsCleared
    /\ agg_result = NoAggResult
    /\ agg_calls = 0

\* aggregate_performance_data is entered (lines 84-95).
aggregate_performance_data ==
    /\ agg_pc = "idle"
    /\ agg_calls < MaxAggregations
    /\ agg_calls' = agg_calls + 1
    /\ agg_pc' = "integrators"
    /\ agg_it' = 0
    /\ agg_attempts' = 0
    /\ agg_integrator_data' = NoData
    /\ agg_platform_data' = NoData
    /\ agg_sources' = <<>>
    /\ agg_pos' = 0
    /\ agg_data' = EmptyAggregate
    /\ agg_normalized' = Raised
    /\ agg_trace' = <<>>
    /\ agg_result' = NoAggResult
    /\ UNCHANGED <<agg_reports, agg_integrators, agg_registered,
                   db_raw, db_norm>>
    /\ UNCHANGED aggFrame

\* Mutant: the platform path is skipped once an integrator gave data.
AfterIntegrators_FirstSuccess(integrator_data) ==
    IF integrator_data # NoData THEN "merge" ELSE "platform"

\* Lines 98-105: _collect_platform_data is awaited whatever
\* _collect_integrator_data returned.
AfterIntegrators(integrator_data) == "platform"

\* One iteration of the loop of _collect_integrator_data (lines 302-310).
AggTryIntegrator ==
    /\ agg_pc = "integrators"
    /\ agg_it < Len(agg_integrators)
    /\ LET integrator == agg_integrators[agg_it + 1]
       IN  IF ~integrator.has_metrics
           THEN /\ agg_it' = agg_it + 1
                /\ UNCHANGED <<agg_pc, agg_integrator_data, agg_trace>>
           ELSE \E out \in MetricOutcomes, payload \in agg_reports :
                  /\ agg_trace' = Append(agg_trace,
                         CallEvent("integrator_metrics", integrator.name, out))
                  /\ IF out = "data"
                     THEN /\ agg_integrator_data' = payload
                          /\ agg_pc' = AfterIntegrators(payload)
                          /\ UNCHANGED agg_it
                     ELSE /\ agg_it' = agg_it + 1
                          /\ UNCHANGED <<agg_pc, agg_integrator_data>>
    /\ UNCHANGED <<agg_reports, agg_integrators, agg_registered,
                   db_raw, db_norm,
                   agg_attempts, agg_platform_data, agg_sources, agg_pos,
                   agg_data, agg_normalized, agg_result, agg_calls>>
    /\ UNCHANGED aggFrame

\* The loop is through: return None (line 312).
AggIntegratorsExhausted ==
    /\ agg_pc = "integrators"
    /\ agg_it = Len(agg_integrators)
    /\ agg_integrator_data' = NoData
    /\ agg_pc' = AfterIntegrators(NoData)
    /\ UNCHANGED <<agg_reports, agg_integrators, agg_registered,
                   db_raw, db_norm, agg_it,
                   agg_attempts, agg_platform_data, agg_sources, agg_pos,
                   agg_data, agg_normalized, agg_trace, agg_result, agg_calls>>
    /\ UNCHANGED aggFrame

\* _collect_platform_data when the platform is not registered (lines 317-318).
AggPlatformUnavailable ==
    /\ agg_pc = "platform"
    /\ ~agg_registered
    /\ agg_trace' = Append(agg_trace,
           CallEvent("collect_platform", AggPlatform, "not registered"))
    /\ agg_platform_data' = NoData
    /\ agg_pc' = "merge"
    /\ UNCHANGED <<agg_reports, agg_integrators, agg_registered,
                   db_raw, db_norm, agg_it,
                   agg_attempts, agg_integrator_data, agg_sources, agg_pos,
                   agg_data, agg_normalized, agg_result, agg_calls>>
    /\ UNCHANGED aggFrame

\* One attempt of the loop of _collect_platform_data (lines 324-333): data
\* ends the loop, nothing is followed by a sleep and the next attempt, an
\* exception ends the collection with None.
AggPlatformAttempt ==
    /\ agg_pc = "platform"
    /\ agg_registered
    /\ agg_attempts < MaxAttempts
    /\ \E out \in MetricOutcomes, payload \in agg_reports :
         LET call == CallEvent("platform_metrics", AggPlatform, out)
         IN  CASE out = "data" ->
                    /\ agg_trace' = Append(agg_trace, call)
                    /\ agg_platform_data' = payload
                    /\ agg_pc' = "merge"
                    /\ UNCHANGED agg_attempts
               [] out = "empty" ->
                    /\ agg_trace' = agg_trace \o
                           <<call, SleepEvent(Backoff(agg_attempts))>>
                    /\ agg_attempts' = agg_attempts + 1
                    /\ agg_platform_data' = NoData
                    /\ agg_pc' = IF agg_attempts + 1 < MaxAttempts
                                 THEN "platform" ELSE "merge"
               [] out = "raise" ->
                    /\ agg_trace' = Append(agg_trace, call)
                    /\ agg_platform_data' = NoData
                    /\ agg_pc' = "merge"
                    /\ UNCHANGED agg_attempts
    /\ UNCHANGED <<agg_reports, agg_integrators, agg_registered,
                   db_raw, db_norm, agg_it,
                   agg_integrator_data, agg_sources, agg_pos, agg_data,
                   agg_normalized, agg_result, agg_calls>>
    /\ UNCHANGED aggFrame

\* all_data_sources (lines 108-112)
DataSources(integrator_data, platform_data) ==
    (IF integrator_data # NoData THEN <<<<"integrator", integrator_data>>>> ELSE <<>>)
    \o (IF platform_data # NoData THEN <<<<"platform", platform_data>>>> ELSE <<>>)

\* Lines 108-118: the sources are merged; with none the call returns.
AggMerge ==
    /\ agg_pc = "merge"
    /\ LET sources == DataSources(agg_integrator_data, agg_platform_data)
       IN  /\ agg_sources' = sources
           /\ IF sources = <<>>
              THEN /\ agg_result' = AggResult(FALSE,
                          "No performance data available from any source",
                          EmptyAggregate)
                   /\ agg_pc' = "done"
              ELSE /\ agg_pc' = "save_raw"
                   /\ UNCHANGED agg_result
    /\ UNCHANGED <<agg_reports, agg_integrators, agg_registered,
                   db_raw, db_norm, agg_it,
                   agg_attempts, agg_integrator_data, agg_platform_data,
                   agg_pos, agg_data, agg_normalized, agg_trace, agg_calls>>
    /\ UNCHANGED aggFrame

\* The except clause of lines 171-176.
AggFailure == AggResult(FALSE, "Performance data aggregation failed", EmptyAggregate)

\* What one awaited insert_one can do.
InsertOutcomes == {"ok", "raise"}

\* Mutant: the raw payload is not written.
AggSaveRaw_Skipped ==
    /\ agg_pc = "save_raw"
    /\ agg_pos < Len(agg_sources)
    /\ agg_data' = [agg_data EXCEPT
                       !.sources = Append(@, agg_sources[agg_pos + 1][1])]
    /\ agg_pc' = "normalize"
    /\ UNCHANGED <<agg_reports, agg_integrators, agg_registered,
                   db_raw, db_norm, agg_it,
                   agg_attempts, agg_integrator_data, agg_platform_data,
                   agg_sources, agg_pos, agg_normalized, agg_trace,
                   agg_result, agg_calls>>
    /\ UNCHANGED aggFrame

\* Lines 121-132: the source is listed and its raw payload saved; a save that
\* raises ends the call at line 171.
AggSaveRaw ==
    /\ agg_pc = "save_raw"
    /\ agg_pos < Len(agg_sources)
    /\ LET source_name == agg_sources[agg_pos + 1][1]
           data == agg_sources[agg_pos + 1][2]
       IN  /\ agg_data' = [agg_data EXCEPT !.sources = Append(@, source_name)]
           /\ \E out \in InsertOutcomes :
                /\ agg_trace' = Append(agg_trace,
                       CallEvent("save_raw", source_name, out))
                /\ IF out = "ok"
                   THEN /\ db_raw' = Append(db_raw, RawRecord(source_name, data))
                        /\ agg_pc' = "normalize"
                        /\ UNCHANGED agg_result
                   ELSE /\ agg_result' = AggFailure
                        /\ agg_pc' = "done"
                        /\ UNCHANGED db_raw
    /\ UNCHANGED <<agg_reports, agg_integrators, agg_registered,
                   db_norm, agg_it,
                   agg_attempts, agg_integrator_data, agg_platform_data,
                   agg_sources, agg_pos, agg_normalized, agg_calls>>
    /\ UNCHANGED aggFrame

\* Lines 134-141: normalize_payload; an exception ends the call at line 171.
AggNormalize ==
    /\ agg_pc = "normalize"
    /\ LET source_name == agg_sources[agg_pos + 1][1]
           data == agg_sources[agg_pos + 1][2]
           normalized == normalize_payload(source_name, data, AggCampaign,
                             AggPlatform, AggAccount, AggWindow, agg_calls)
       IN  /\ agg_normalized' = normalized
           /\ agg_trace' = Append(agg_trace,
                  CallEvent("normalize_payload", source_name,
                            IF normalized = Raised THEN "raise" ELSE "ok"))
           /\ IF normalized = Raised
              THEN agg_result' = AggFailure /\ agg_pc' = "done"
              ELSE agg_pc' = "save_normalized" /\ UNCHANGED agg_result
    /\ UNCHANGED <<agg_reports, agg_integrators, agg_registered,
                   db_raw, db_norm, agg_it,
                   agg_attempts, agg_integrator_data, agg_platform_data,
                   agg_sources, agg_pos, agg_data, agg_calls>>
    /\ UNCHANGED aggFrame

\* Lines 142-147: the normalized record is saved and added to the totals.
AggSaveNormalized ==
    /\ agg_pc = "save_normalized"
    /\ LET source_name == agg_sources[agg_pos + 1][1]
       IN  \E out \in InsertOutcomes :
             /\ agg_trace' = Append(agg_trace,
                    CallEvent("save_normalized", source_name, out))
             /\ IF out = "ok"
                THEN /\ db_norm' = Append(db_norm, agg_normalized)
                     /\ agg_data' = [agg_data EXCEPT
                            !.total_spend = RAdd(@, agg_normalized.spend),
                            !.total_impressions = RAdd(@, agg_normalized.impressions),
                            !.total_clicks = RAdd(@, agg_normalized.clicks),
                            !.total_conversions = RAdd(@, agg_normalized.conversions)]
                     /\ agg_pos' = agg_pos + 1
                     /\ agg_pc' = IF agg_pos + 1 < Len(agg_sources)
                                  THEN "save_raw" ELSE "finish"
                     /\ UNCHANGED agg_result
                ELSE /\ agg_result' = AggFailure
                     /\ agg_pc' = "done"
                     /\ UNCHANGED <<db_norm, agg_data, agg_pos>>
    /\ UNCHANGED <<agg_reports, agg_integrators, agg_registered,
                   db_raw, agg_it,
                   agg_attempts, agg_integrator_data, agg_platform_data,
                   agg_sources, agg_normalized, agg_calls>>
    /\ UNCHANGED aggFrame

\* data.get("spend", 0) and data.get("impressions", 0) of the raw payloads;
\* summing a value that is not a number is a TypeError.
RawNumbers(payload) ==
    [k \in {"spend", "impressions"} |->
        IF payload[k] = Absent THEN Absent ELSE payload[k].val]

HasOnlyNumbers(payload) ==
    \A k \in {"spend", "impressions"} :
        payload[k] = Absent \/ payload[k].kind = "num"

ScoreOfSources(sources) ==
    IF Len(sources) >= 2 /\ \E i \in 1..Len(sources) : ~HasOnlyNumbers(sources[i][2])
    THEN Raised
    ELSE calculate_data_quality_score(
             [i \in 1..Len(sources) |-> <<sources[i][1], RawNumbers(sources[i][2])>>])

\* Lines 153-164.
WithAverages(data) ==
    [campaign_id |-> data.campaign_id, platform |-> data.platform,
     sources |-> data.sources, total_spend |-> data.total_spend,
     total_impressions |-> data.total_impressions,
     total_clicks |-> data.total_clicks,
     total_conversions |-> data.total_conversions,
     data_quality_score |-> data.data_quality_score,
     avg_roas |-> IF RLt(RInt(0), data.total_spend)
                  THEN RDiv(data.total_conversions, data.total_spend) ELSE RInt(0),
     avg_ctr |-> IF RLt(RInt(0), data.total_impressions)
                 THEN RMul(RDiv(data.total_clicks, data.total_impressions), RInt(100))
                 ELSE RInt(0),
     avg_cpc |-> IF RLt(RInt(0), data.total_clicks)
                 THEN RDiv(data.total_spend, data.total_clicks) ELSE RInt(0)]

\* Lines 150-169: the quality score, the averages and the successful return.
AggFinish ==
    /\ agg_pc = "finish"
    /\ LET score == ScoreOfSources(agg_sources)
       IN  IF score = Raised
           THEN /\ agg_result' = AggFailure
                /\ UNCHANGED agg_data
           ELSE /\ agg_data' = [agg_data EXCEPT !.data_quality_score = score]
                /\ agg_result' = AggResult(TRUE, "",
                       WithAverages([agg_data EXCEPT !.data_quality_score = score]))
    /\ agg_pc' = "done"
    /\ UNCHANGED <<agg_reports, agg_integrators, agg_registered,
                   db_raw, db_norm, agg_it,
                   agg_attempts, agg_integrator_data, agg_platform_data,
                   agg_sources, agg_pos, agg_normalized, agg_trace, agg_calls>>
    /\ UNCHANGED aggFrame

\* The caller has the result.
AggReturn ==
    /\ agg_pc = "done"
    /\ agg_pc' = "idle"
    /\ UNCHANGED <<agg_reports, agg_integrators, agg_registered,
                   db_raw, db_norm, agg_it,
                   agg_attempts, agg_integrator_data, agg_platform_data,
                   agg_sources, agg_pos, agg_data, agg_normalized, agg_trace,
                   agg_result, agg_calls>>
    /\ UNCHANGED aggFrame

AggNext ==
    \/ aggregate_performance_data
    \/ AggTryIntegrator
    \/ AggIntegratorsExhausted
    \/ AggPlatformUnavailable
    \/ AggPlatformAttempt
    \/ AggMerge
    \/ AggSaveRaw
    \/ AggNormalize
    \/ AggSaveNormalized
    \/ AggFinish
    \/ AggReturn

(***************************************************************************)
(* IntegrationMiddleware.create_campaign_with_fallback and the connectors'  *)
(* create_campaign.                                                        *)
(***************************************************************************)
\* The status a caller may put in campaign_data; NoStatus is a missing key.
NoStatus == "unset"
RequestedStatuses == {"ACTIVE", "PAUSED", NoStatus}

\* campaign_data: the keys the connectors read.  campaign is the nested
\* dict AdRoll prefers over the top level.
CampaignData ==
    [strategy_eid : BOOLEAN, name : BOOLEAN, status : RequestedStatuses,
     campaign : {[present |-> FALSE, status |-> NoStatus]}
                  \cup [present : {TRUE}, status : RequestedStatuses]]

\* Platforms that have a direct connector.
ConnectorPlatforms == {"google_ads", "meta_ads", "tiktok_ads", "linkedin_ads"}

\* hasattr(integrator, 'create_campaign'): only AdRollConnector defines it.
HasCreateCampaign(name) == name = "adroll"

\* body = campaign_data.get("campaign", campaign_data), posted as it is: the
\* status the request carries is the one the body holds.
AdRollBodyStatus(data) ==
    IF data.campaign.present THEN data.campaign.status ELSE data.status

\* The status field of the body each platform connector builds.
PlatformBodyStatus(platform) ==
    CASE platform = "google_ads" -> "PAUSED"
      [] platform = "meta_ads" -> "PAUSED"
      [] platform = "linkedin_ads" -> "PAUSED"
      [] platform = "tiktok_ads" -> "PAUSED"

\* campaign_data["name"] is subscripted by these connectors, .get() by the
\* others: a missing name raises before anything is posted.
SubscriptsName(platform) == platform \in {"google_ads", "meta_ads"}

\* f"direct_{platform}"
DirectSource(platform) ==
    CASE platform = "google_ads" -> "direct_google_ads"
      [] platform = "meta_ads" -> "direct_meta_ads"
      [] platform = "linkedin_ads" -> "direct_linkedin_ads"
      [] platform = "tiktok_ads" -> "direct_tiktok_ads"

\* What AdRoll's POST can end in: an eid, a body without one (""), or a
\* status >= 300 / an exception (None).
AdRollOutcomes == {"eid", "no_eid", "failed"}

\* What a platform connector's POST can end in.
PlatformCreateOutcomes == {"id", "empty", "raise"}

CreateResult(success, source, message) ==
    [success |-> success, source |-> source, message |-> message]

NoCreateResult == CreateResult(FALSE, "", "")

\* Lines 201-204: the record returned when neither path created the campaign.
CreateFailure ==
    CreateResult(FALSE, "", "Campaign creation failed on all platforms")

\* accepted: the service answered the request with a 2xx status.
CreateRequest(via, status, accepted) ==
    [via |-> via, status |-> status, accepted |-> accepted]

\* The registration order of IntegrationService.initialize_integrators.
RegisteredInOrder(S) == SelectSeq(AggIntegratorOrder, LAMBDA n : n \in S)

CrInit ==
    /\ cr_integrators \in
          {RegisteredInOrder(S) :
              S \in {T \in SUBSET IntegratorNames :
                        Cardinality(T) <= MaxIntegrators}}
    /\ cr_registered \in BOOLEAN
    /\ cr_platform \in ConnectorPlatforms
    /\ cr_fallback \in BOOLEAN
    /\ cr_data \in CampaignData
    /\ cr_pc = "idle"
    /\ cr_it = 0
    /\ cr_trace = <<>>
    /\ cr_result = NoCreateResult

CrIdle ==
    /\ cr_integrators = <<>>
    /\ cr_registered = FALSE
    /\ cr_platform = "google_ads"
    /\ cr_fallback = TRUE
    /\ cr_data = [strategy_eid |-> FALSE, name |-> FALSE, status |-> NoStatus,
                  campaign |-> [present |-> FALSE, status |-> NoStatus]]
    /\ cr_pc = "idle"
    /\ cr_it = 0
    /\ cr_trace = <<>>
    /\ cr_result = NoCreateResult

\* Entry: the integrators are tried first.
create_campaign_with_fallback ==
    /\ cr_pc = "idle"
    /\ cr_pc' = "integrators"
    /\ cr_it' = 1
    /\ UNCHANGED <<cr_integrators, cr_registered, cr_platform, cr_fallback,
                   cr_data, cr_trace, cr_result>>
    /\ UNCHANGED crFrame

\* One pass of the loop of _try_integrator_campaign_creation.
CrTryIntegrator ==
    /\ cr_pc = "integrators"
    /\ cr_it <= Len(cr_integrators)
    /\ LET name == cr_integrators[cr_it] IN
         IF ~HasCreateCampaign(name) \/ ~cr_data.strategy_eid
         THEN /\ cr_it' = cr_it + 1
              /\ UNCHANGED <<cr_pc, cr_trace, cr_result>>
         ELSE \E out \in AdRollOutcomes :
                /\ cr_trace' =
                      Append(cr_trace,
                             CreateRequest(name, AdRollBodyStatus(cr_data),
                                           out # "failed"))
                /\ IF out = "eid"
                   THEN /\ cr_result' =
                             CreateResult(TRUE, name, "Campaign created via")
                        /\ cr_pc' = "done"
                        /\ UNCHANGED cr_it
                   ELSE /\ cr_it' = cr_it + 1
                        /\ UNCHANGED <<cr_pc, cr_result>>
    /\ UNCHANGED <<cr_integrators, cr_registered, cr_platform, cr_fallback,
                   cr_data>>
    /\ UNCHANGED crFrame

\* "All integrators failed": the platform is tried when fallback is enabled.
CrIntegratorsExhausted ==
    /\ cr_pc = "integrators"
    /\ cr_it > Len(cr_integrators)
    /\ IF cr_fallback
       THEN /\ cr_pc' = "platform"
            /\ UNCHANGED cr_result
       ELSE /\ cr_pc' = "done"
            /\ cr_result' = CreateFailure
    /\ UNCHANGED <<cr_integrators, cr_registered, cr_platform, cr_fallback,
                   cr_data, cr_it, cr_trace>>
    /\ UNCHANGED crFrame

\* _try_platform_campaign_creation: platform not in self.platforms.
CrPlatformUnavailable ==
    /\ cr_pc = "platform"
    /\ ~cr_registered
    /\ cr_pc' = "done"
    /\ cr_result' = CreateFailure
    /\ UNCHANGED <<cr_integrators, cr_registered, cr_platform, cr_fallback,
                   cr_data, cr_it, cr_trace>>
    /\ UNCHANGED crFrame

\* _try_platform_campaign_creation: the one call of the platform connector.
CrPlatformAttempt ==
    /\ cr_pc = "platform"
    /\ cr_registered
    /\ IF SubscriptsName(cr_platform) /\ ~cr_data.name
       THEN /\ cr_result' = CreateFailure
            /\ UNCHANGED cr_trace
       ELSE \E out \in PlatformCreateOutcomes :
              /\ cr_trace' =
                    Append(cr_trace,
                           CreateRequest(DirectSource(cr_platform),
                                         PlatformBodyStatus(cr_platform),
                                         out # "raise"))
              /\ cr_result' =
                    IF out = "id"
                    THEN CreateResult(TRUE, DirectSource(cr_platform),
                                      "Campaign created via direct API")
                    ELSE CreateFailure
    /\ cr_pc' = "done"
    /\ UNCHANGED <<cr_integrators, cr_registered, cr_platform, cr_fallback,
                   cr_data, cr_it>>
    /\ UNCHANGED crFrame

CrNext ==
    \/ create_campaign_with_fallback
    \/ CrTryIntegrator
    \/ CrIntegratorsExhausted
    \/ CrPlatformUnavailable
    \/ CrPlatformAttempt

(***************************************************************************)
(* Platform connectors: how an HTTP status reaches the caller.             *)
(***************************************************************************)
\* Status codes a platform can answer with.
StatusCodes == {200, 201, 400, 401, 403, 404, 429, 500, 503}

\* The connector operations that test for 429 and 401.
ClassifyingOperations ==
    ({"google_ads", "meta_ads"}
        \X {"get_campaigns", "create_campaign", "update_campaign_budget",
            "get_performance_metrics"})
    \cup {<<"tiktok_ads", "get_campaigns">>}

NoException == "none"

\* The if/elif chain on response.status_code inside the try block: the
\* class it raises, or NoException.  update_campaign_budget has no third
\* branch and returns status_code == 200.
ClassifyStatus(op, status) ==
    IF status = 429 THEN "RateLimitError"
    ELSE IF status = 401 THEN "AuthenticationError"
    ELSE IF op # "update_campaign_budget" /\ status # 200
         THEN "IntegrationError"
         ELSE NoException

\* except Exception as e: raise IntegrationError(f"...{str(e)}") -- the
\* exception that leaves the operation is a new, plain IntegrationError.
Reraised(cls) == "IntegrationError"

Returned(value) == [kind |-> "return", value |-> value]

RaisedToCaller(cls) == [kind |-> "raise", value |-> cls]

NotObserved == [kind |-> "pending", value |-> ""]

CnInit ==
    /\ \E po \in ClassifyingOperations :
          /\ cn_platform = po[1]
          /\ cn_op = po[2]
    /\ cn_pc = "idle"
    /\ cn_status = 0
    /\ cn_raised = NoException
    /\ cn_observed = NotObserved

CnIdle ==
    /\ cn_platform = "google_ads"
    /\ cn_op = "get_campaigns"
    /\ cn_pc = "idle"
    /\ cn_status = 0
    /\ cn_raised = NoException
    /\ cn_observed = NotObserved

\* response = await client.post(...) / client.get(...) / client.patch(...)
CnRespond ==
    /\ cn_pc = "idle"
    /\ \E status \in StatusCodes : cn_status' = status
    /\ cn_pc' = "responded"
    /\ UNCHANGED <<cn_platform, cn_op, cn_raised, cn_observed>>
    /\ UNCHANGED cnFrame

\* The status tests raise inside the try block.
CnRaiseInTry ==
    /\ cn_pc = "responded"
    /\ ClassifyStatus(cn_op, cn_status) # NoException
    /\ cn_raised' = ClassifyStatus(cn_op, cn_status)
    /\ cn_pc' = "raised"
    /\ UNCHANGED <<cn_platform, cn_op, cn_status, cn_observed>>
    /\ UNCHANGED cnFrame

\* No test fired: the operation returns its value.
CnReturn ==
    /\ cn_pc = "responded"
    /\ ClassifyStatus(cn_op, cn_status) = NoException
    /\ cn_observed' =
          Returned(IF cn_op = "update_campaign_budget"
                   THEN IF cn_status = 200 THEN "True" ELSE "False"
                   ELSE "data")
    /\ cn_pc' = "done"
    /\ UNCHANGED <<cn_platform, cn_op, cn_status, cn_raised>>
    /\ UNCHANGED cnFrame

\* The except Exception clause of the operation catches what the try block
\* raised and raises in its place.
CnExceptHandler ==
    /\ cn_pc = "raised"
    /\ cn_observed' = RaisedToCaller(Reraised(cn_raised))
    /\ cn_pc' = "done"
    /\ UNCHANGED <<cn_platform, cn_op, cn_status, cn_raised>>
    /\ UNCHANGED cnFrame

CnNext ==
    \/ CnRespond
    \/ CnRaiseInTry
    \/ CnReturn
    \/ CnExceptHandler

(***************************************************************************)
(* IntegrationMiddleware.pause_campaign_with_fallback.                     *)
(***************************************************************************)
PauseResult(success, source, message) ==
    [success |-> success, source |-> source, message |-> message]

NoPauseResult == PauseResult(FALSE, "", "")

\* Lines 234-237: the record returned when neither path paused the campaign.
PauseFailure == PauseResult(FALSE, "", "Campaign pause failed on all platforms")

\* What one awaited pause_campaign call can do.
PauseOutcomes == {"true", "false", "raise"}

PzInit ==
    /\ pz_integrators \in
          UNION {{[i \in 1..n |-> [name |-> AggIntegratorOrder[i],
                                   has_pause |-> has[i]]] :
                     has \in [1..n -> BOOLEAN]} : n \in 0..MaxIntegrators}
    /\ pz_registered \in BOOLEAN
    /\ pz_fallback \in BOOLEAN
    /\ pz_pc = "idle"
    /\ pz_it = 0
    /\ pz_trace = <<>>
    /\ pz_result = NoPauseResult

PzIdle ==
    /\ pz_integrators = <<>>
    /\ pz_registered = FALSE
    /\ pz_fallback = TRUE
    /\ pz_pc = "idle"
    /\ pz_it = 0
    /\ pz_trace = <<>>
    /\ pz_result = NoPauseResult

\* Entry: the integrators are tried first.
pause_campaign_with_fallback ==
    /\ pz_pc = "idle"
    /\ pz_pc' = "integrators"
    /\ pz_it' = 1
    /\ pz_trace' = <<>>
    /\ pz_result' = NoPauseResult
    /\ UNCHANGED <<pz_integrators, pz_registered, pz_fallback>>
    /\ UNCHANGED pzFrame

\* One pass of the loop of _try_integrator_campaign_pause: a call that
\* raises is caught at line 391 and the loop goes on.
PzTryIntegrator ==
    /\ pz_pc = "integrators"
    /\ pz_it <= Len(pz_integrators)
    /\ LET integ == pz_integrators[pz_it] IN
         IF ~integ.has_pause
         THEN /\ pz_it' = pz_it + 1
              /\ UNCHANGED <<pz_pc, pz_trace, pz_result>>
         ELSE \E out \in PauseOutcomes :
                /\ pz_trace' =
                      Append(pz_trace, CallEvent("integrator", integ.name, out))
                /\ IF out = "true"
                   THEN /\ pz_result' =
                             PauseResult(TRUE, integ.name, "Campaign paused via")
                        /\ pz_pc' = "done"
                        /\ UNCHANGED pz_it
                   ELSE /\ pz_it' = pz_it + 1
                        /\ UNCHANGED <<pz_pc, pz_result>>
    /\ UNCHANGED <<pz_integrators, pz_registered, pz_fallback>>
    /\ UNCHANGED pzFrame

\* "All integrators failed": the platform is tried when fallback is enabled.
PzIntegratorsExhausted ==
    /\ pz_pc = "integrators"
    /\ pz_it > Len(pz_integrators)
    /\ IF pz_fallback
       THEN /\ pz_pc' = "platform"
            /\ UNCHANGED pz_result
       ELSE /\ pz_pc' = "done"
            /\ pz_result' = PauseFailure
    /\ UNCHANGED <<pz_integrators, pz_registered, pz_fallback, pz_it, pz_trace>>
    /\ UNCHANGED pzFrame

\* _try_platform_campaign_pause: platform not in self.platforms.
PzPlatformUnavailable ==
    /\ pz_pc = "platform"
    /\ ~pz_registered
    /\ pz_pc' = "done"
    /\ pz_result' = PauseFailure
    /\ UNCHANGED <<pz_integrators, pz_registered, pz_fallback, pz_it, pz_trace>>
    /\ UNCHANGED pzFrame

\* _try_platform_campaign_pause: the one call of the platform connector; a
\* call that raises is caught at line 416.
PzPlatformAttempt ==
    /\ pz_pc = "platform"
    /\ pz_registered
    /\ \E out \in PauseOutcomes :
         /\ pz_trace' = Append(pz_trace, CallEvent("platform", "direct", out))
         /\ pz_result' =
               IF out = "true"
               THEN PauseResult(TRUE, "direct", "Campaign paused via direct API")
               ELSE PauseFailure
    /\ pz_pc' = "done"
    /\ UNCHANGED <<pz_integrators, pz_registered, pz_fallback, pz_it>>
    /\ UNCHANGED pzFrame

PzNext ==
    \/ pause_campaign_with_fallback
    \/ PzTryIntegrator
    \/ PzIntegratorsExhausted
    \/ PzPlatformUnavailable
    \/ PzPlatformAttempt

(***************************************************************************)
(* The operations of the core, one at a time: make_hourly_decisions,       *)
(* execute_budget_change, aggregate_performance_data,                      *)
(* create_campaign_with_fallback, pause_campaign_with_fallback.            *)
(***************************************************************************)
\* The stores the decision cycle is run over here.
FacadeStores == UNION {[1..n -> EngineRows] : n \in 0..2}

\* One of the five operations is set up; the state of the others is
\* untouched.
FacadeInit ==
    /\ MwInit
    /\ \/ EngInitOver(FacadeStores) /\ AggIdle /\ CrIdle /\ PzIdle
       \/ EngIdle /\ AggInit /\ CrIdle /\ PzIdle
       \/ EngIdle /\ AggIdle /\ CrInit /\ PzIdle
       \/ EngIdle /\ AggIdle /\ CrIdle /\ PzInit

\* Each operation runs while the others have not been used.
FacadeBudgetChange ==
    /\ EngIdle /\ AggIdle /\ CrIdle /\ PzIdle
    /\ MwNext

FacadeDecisionCycle ==
    /\ MwInit /\ AggIdle /\ CrIdle /\ PzIdle
    /\ EngNext

FacadeAggregate ==
    /\ MwInit /\ EngIdle /\ CrIdle /\ PzIdle
    /\ AggNext

FacadeCreate ==
    /\ MwInit /\ EngIdle /\ AggIdle /\ PzIdle
    /\ CrNext

FacadePause ==
    /\ MwInit /\ EngIdle /\ AggIdle /\ CrIdle
    /\ PzNext

FacadeNext ==
    \/ FacadeBudgetChange
    \/ FacadeDecisionCycle
    \/ FacadeAggregate
    \/ FacadeCreate
    \/ FacadePause

(***************************************************************************)
(* register_integrator and register_platform at the suspension points of   *)
(* execute_budget_change.                                                  *)
(***************************************************************************)
MaxRegistrations == 1

\* The variables of every other component.
mwrgFrame ==
    <<dmVars, fnVars, engVars, exVars, schVars, qsVars, nzVars, aggVars,
      crVars, cnVars, pzVars, dlVars>>

\* for integrator_name, integrator in self.integrators.items(): the next
\* step of the iterator raises RuntimeError("dictionary changed size during
\* iteration") outside the try of the loop body; line 72 catches it.
IterationFailure ==
    [success |-> FALSE, source |-> NoSource,
     message |-> <<"Budget change execution failed:", "RuntimeError">>,
     errors |-> <<>>]

RgInit ==
    /\ platforms \in SUBSET {"google_ads"}
    /\ integrators \in
          UNION {{[i \in 1..n |-> [name |-> AggIntegratorOrder[i],
                                   has_update |-> has[i]]] :
                     has \in [1..n -> BOOLEAN]} : n \in 0..MaxIntegrators}
    /\ fallback_enabled \in BOOLEAN
    /\ mw_pc = "idle"
    /\ call_platform = NoPlatform
    /\ it = 0
    /\ attempts = 0
    /\ trace = <<>>
    /\ mw_result = NoResult
    /\ rg_started = integrators
    /\ rg_resized = FALSE
    /\ rg_registrations = 0

RgIdle ==
    /\ rg_started = <<>>
    /\ rg_resized = FALSE
    /\ rg_registrations = 0

\* The call is suspended in the await of an integrator's
\* update_campaign_budget, which is about to return falsy or raise.
SuspendedInIntegratorLoop ==
    /\ mw_pc = "integrators"
    /\ it > 1
    /\ integrators[it - 1].has_update

\* The call is suspended in the await of the platform connector or of a
\* backoff sleep.
SuspendedInPlatformPath ==
    /\ mw_pc = "platform"
    /\ attempts > 0

\* register_integrator runs while the call is suspended: self.integrators[
\* name] = instance replaces a known key in place and adds a new key last.
register_integrator_in_flight(name, has_update) ==
    /\ SuspendedInIntegratorLoop \/ SuspendedInPlatformPath
    /\ rg_registrations < MaxRegistrations
    /\ rg_registrations' = rg_registrations + 1
    /\ LET inst == [name |-> name, has_update |-> has_update]
       IN  IF name \in RegisteredNames
           THEN /\ integrators' =
                      [i \in 1..Len(integrators) |->
                          IF integrators[i].name = name
                          THEN inst ELSE integrators[i]]
                /\ UNCHANGED rg_resized
           ELSE /\ integrators' = Append(integrators, inst)
                /\ rg_resized' = (rg_resized \/ mw_pc = "integrators")
    /\ UNCHANGED <<platforms, fallback_enabled, mw_pc, call_platform, it,
                   attempts, trace, mw_result, rg_started>>
    /\ UNCHANGED mwrgFrame

\* register_platform runs while the call is suspended.
register_platform_in_flight(p) ==
    /\ SuspendedInIntegratorLoop \/ SuspendedInPlatformPath
    /\ rg_registrations < MaxRegistrations
    /\ rg_registrations' = rg_registrations + 1
    /\ platforms' = platforms \cup {p}
    /\ UNCHANGED <<integrators, fallback_enabled, mw_pc, call_platform, it,
                   attempts, trace, mw_result, rg_started, rg_resized>>
    /\ UNCHANGED mwrgFrame

RgExecute == \E p \in {"google_ads"} : execute_budget_change(p)

\* The loop goes on as long as the dict kept its size.
RgTryIntegrator ==
    /\ ~rg_resized
    /\ TryIntegrator

RgIntegratorsExhausted ==
    /\ ~rg_resized
    /\ IntegratorsExhausted

\* The iterator finds the dict resized: RuntimeError leaves
\* _try_integrator_budget_change and is caught at line 72.
RgIterationRaises ==
    /\ mw_pc = "integrators"
    /\ rg_resized
    /\ mw_pc' = "done"
    /\ mw_result' = IterationFailure
    /\ UNCHANGED <<platforms, integrators, fallback_enabled, call_platform, it,
                   attempts, trace>>
    /\ UNCHANGED mwFrame

RgPlatformAttempt == PlatformAttempt

RgNext ==
    \/ RgExecute
    \/ RgTryIntegrator
    \/ RgIntegratorsExhausted
    \/ RgIterationRaises
    \/ RgPlatformAttempt
    \/ \E n \in IntegratorNames, h \in BOOLEAN :
           register_integrator_in_flight(n, h)
    \/ \E p \in {"google_ads", "meta_ads"} : register_platform_in_flight(p)

(***************************************************************************)
(* IntelligenceScheduler: start_hourly_optimization called more than once. *)
(***************************************************************************)
MaxLoops == 2
MaxHours == 1

\* The active SKUs every pass finds.
DlActiveSkus == {"sku1", "sku2"}
DlSkuOrder == <<"sku1", "sku2">>

Loops == 1..MaxLoops

DlInit ==
    /\ dl_running = FALSE
    /\ dl_pc = [i \in Loops |-> "unstarted"]
    /\ dl_pos = [i \in Loops |-> 0]
    /\ dl_wake = [i \in Loops |-> 0]
    /\ dl_hour = 0
    /\ dl_cycles = {}

DlIdle ==
    /\ dl_running = FALSE
    /\ dl_pc = <<>>
    /\ dl_pos = <<>>
    /\ dl_wake = <<>>
    /\ dl_hour = 0
    /\ dl_cycles = {}

\* start_hourly_optimization is called: self.running = True and the loop is
\* entered, whatever self.running was (lines 347-350).
DlStart(i) ==
    /\ dl_pc[i] = "unstarted"
    /\ \A j \in Loops : j < i => dl_pc[j] # "unstarted"
    /\ dl_running' = TRUE
    /\ dl_pc' = [dl_pc EXCEPT ![i] = "loop"]
    /\ UNCHANGED <<dl_pos, dl_wake, dl_hour, dl_cycles>>
    /\ UNCHANGED dlFrame

\* stop_optimization (lines 375-378).
DlStop ==
    /\ dl_running
    /\ dl_running' = FALSE
    /\ UNCHANGED <<dl_pc, dl_pos, dl_wake, dl_hour, dl_cycles>>
    /\ UNCHANGED dlFrame

\* `while self.running` holds: the active SKUs are read; a read that raises
\* is caught at line 371 and the loop sleeps 300 s.
DlEnumerate(i) ==
    /\ dl_pc[i] = "loop"
    /\ dl_running
    /\ \E out \in {"ok", "raise"} :
         IF out = "ok"
         THEN /\ dl_pc' = [dl_pc EXCEPT ![i] = "pass"]
              /\ dl_pos' = [dl_pos EXCEPT ![i] = 0]
              /\ UNCHANGED dl_wake
         ELSE /\ dl_pc' = [dl_pc EXCEPT ![i] = "sleep"]
              /\ dl_wake' = [dl_wake EXCEPT ![i] = dl_hour]
              /\ UNCHANGED dl_pos
    /\ UNCHANGED <<dl_running, dl_hour, dl_cycles>>
    /\ UNCHANGED dlFrame

\* `while self.running` fails: the coroutine returns.
DlLoopExit(i) ==
    /\ dl_pc[i] = "loop"
    /\ ~dl_running
    /\ dl_pc' = [dl_pc EXCEPT ![i] = "exited"]
    /\ UNCHANGED <<dl_running, dl_pos, dl_wake, dl_hour, dl_cycles>>
    /\ UNCHANGED dlFrame

\* The for loop awaits the cycle of the next SKU (lines 359-361).
DlCycle(i) ==
    /\ dl_pc[i] = "pass"
    /\ dl_pos[i] < Len(DlSkuOrder)
    /\ dl_cycles' = dl_cycles \cup
          {[loop |-> i, sku |-> DlSkuOrder[dl_pos[i] + 1], hour |-> dl_hour]}
    /\ dl_pos' = [dl_pos EXCEPT ![i] = dl_pos[i] + 1]
    /\ UNCHANGED <<dl_running, dl_pc, dl_wake, dl_hour>>
    /\ UNCHANGED dlFrame

\* The for loop is through: await asyncio.sleep(3600) (line 369).
DlPassDone(i) ==
    /\ dl_pc[i] = "pass"
    /\ dl_pos[i] = Len(DlSkuOrder)
    /\ dl_pc' = [dl_pc EXCEPT ![i] = "sleep"]
    /\ dl_wake' = [dl_wake EXCEPT ![i] = dl_hour + 1]
    /\ UNCHANGED <<dl_running, dl_pos, dl_hour, dl_cycles>>
    /\ UNCHANGED dlFrame

\* The sleep is over: back to the loop test.
DlWake(i) ==
    /\ dl_pc[i] = "sleep"
    /\ dl_hour >= dl_wake[i]
    /\ dl_pc' = [dl_pc EXCEPT ![i] = "loop"]
    /\ UNCHANGED <<dl_running, dl_pos, dl_wake, dl_hour, dl_cycles>>
    /\ UNCHANGED dlFrame

\* An hour passes.
DlTick ==
    /\ dl_hour < MaxHours
    /\ dl_hour' = dl_hour + 1
    /\ UNCHANGED <<dl_running, dl_pc, dl_pos, dl_wake, dl_cycles>>
    /\ UNCHANGED dlFrame

DlNext ==
    \/ \E i \in Loops : DlStart(i)
    \/ DlStop
    \/ \E i \in Loops : DlEnumerate(i)
    \/ \E i \in Loops : DlLoopExit(i)
    \/ \E i \in Loops : DlCycle(i)
    \/ \E i \in Loops : DlPassDone(i)
    \/ \E i \in Loops : DlWake(i)
    \/ DlTick

(***************************************************************************)
(* Properties of the decision cycle.                                       *)
(***************************************************************************)
ExecutedDecisions == 1..Len(eng_calls)

\* C5 as stated: every budget_allocation decision executed in a cycle is
\* executed by calling execute_budget_change of the middleware, and the engine
\* never writes budget_allocated in the campaign store.
C5_ExecutedViaMiddleware ==
    /\ \A i \in ExecutedDecisions :
         eng_decisions[i].type = "budget_allocation" =>
            /\ eng_calls[i].target = "app.integrations.middleware"
            /\ eng_calls[i].fn = "execute_budget_change"
    /\ eng_changed = {}

\* C5: every budget_allocation decision executed in a cycle is executed by
\* the engine calling update_campaign_budget of campaign_queries with the
\* decision's campaign and new budget; the decision succeeds exactly when the
\* store modified the document, which then holds the new budget; the
\* middleware is not called.
C5_BudgetWrittenByEngine ==
    /\ Len(eng_calls) = Len(eng_results)
    /\ \A i \in ExecutedDecisions :
         LET decision == eng_decisions[i]
             call == eng_calls[i]
         IN  decision.type = "budget_allocation" =>
               /\ call = StoreCall("update_campaign_budget", decision, call.out)
               /\ eng_results[i].decision = decision
               /\ eng_results[i].success <=> call.out = "modified"
               /\ eng_results[i].success =>
                     /\ decision.campaign_id \in eng_changed
                     /\ db_campaigns[decision.campaign_id].budget_allocated
                           = decision.new_budget
    /\ mw_pc = "idle"
    /\ trace = <<>>

C5_Witness ==
    \E i \in ExecutedDecisions :
        /\ eng_decisions[i].type = "budget_allocation"
        /\ eng_results[i].success
        /\ eng_decisions[i].new_budget # eng_decisions[i].old_budget
        /\ db_campaigns[eng_decisions[i].campaign_id].budget_allocated
              = eng_decisions[i].new_budget

\* C6: after any sequence of decision cycles every campaign whose budget the
\* engine changed has budget_allocated >= 0 and >= min_campaign_budget, and
\* every decision emitted has new_budget >= min_campaign_budget.
C6_ChangedBudgetAtLeastMinimum ==
    /\ \A id \in eng_changed :
         /\ RLe(RInt(0), db_campaigns[id].budget_allocated)
         /\ RLe(RInt(min_campaign_budget), db_campaigns[id].budget_allocated)
    /\ \A i \in 1..Len(eng_decisions) :
         RLe(RInt(min_campaign_budget), eng_decisions[i].new_budget)

\* The scenario of C9: a cycle for a SKU with three active campaigns and no
\* performance metric has returned, and the reads of the SKU and of its
\* campaigns did not raise.
C9_Scenario ==
    /\ eng_pc = "done"
    /\ eng_sku \in DOMAIN SkuStore
    /\ Len(db_campaigns) = 3
    /\ \A i \in 1..Len(db_campaigns) : IsActive(db_campaigns[i])
    /\ DOMAIN db_metrics = {}
    /\ eng_faults \cap {"get_sku_by_id", "get_campaigns_by_sku"} = {}

C9_Increases ==
    [i \in 1..Len(eng_decisions) |->
        RSub(eng_decisions[i].new_budget, eng_decisions[i].old_budget)]

\* 20% of the sum of the campaigns' budgets when the cycle read them.
C9_Allowance == RMul(RSum(CampaignBudgets(eng_campaigns)), Rat(20, 100))

C9_Share == RDiv(C9_Allowance, RInt(3))

C9_Floored(decision) ==
    RLt(RAdd(decision.old_budget, C9_Share), RInt(min_campaign_budget))

C9_ResultShape ==
    /\ eng_result.success
    /\ eng_result.mode = "explore"
    /\ eng_result.decisions = eng_decisions
    /\ Len(eng_decisions) <= 3
    /\ \A i \in 1..Len(eng_decisions) :
         /\ eng_decisions[i].campaign_id \in 1..Len(db_campaigns)
         /\ RLt(eng_decisions[i].old_budget, eng_decisions[i].new_budget)
    /\ \A i, j \in 1..Len(eng_decisions) :
         eng_decisions[i].campaign_id = eng_decisions[j].campaign_id => i = j

\* C9 as stated: in the scenario the cycle returns success in explore mode, at
\* most three campaigns get a decision, every decision raises the budget, and
\* the increases sum to at most 20% of the campaigns' current budgets.
C9_IncreaseWithinTwentyPercent ==
    C9_Scenario =>
        /\ C9_ResultShape
        /\ RLe(RSum(C9_Increases), C9_Allowance)

\* C9: in the scenario the cycle returns success in explore mode, at most
\* three campaigns get a decision and every decision raises the budget; a
\* decision raises the budget by a third of 20% of the current budgets, or up
\* to min_campaign_budget when that is more, so the increases sum to at most
\* 20% of the current budgets when no decision is lifted to the minimum.
C9_ExploreScenario ==
    C9_Scenario =>
        /\ C9_ResultShape
        /\ \A i \in 1..Len(eng_decisions) :
             C9_Increases[i] =
                 RMax(C9_Share,
                      RSub(RInt(min_campaign_budget), eng_decisions[i].old_budget))
        /\ (\A i \in 1..Len(eng_decisions) : ~C9_Floored(eng_decisions[i]))
              => RLe(RSum(C9_Increases), C9_Allowance)

C9_Witness ==
    /\ C9_Scenario
    /\ Len(eng_decisions) = 3
    /\ \E i \in 1..3 : C9_Floored(eng_decisions[i])
    /\ \E i \in 1..3 : ~C9_Floored(eng_decisions[i])
    /\ ~RLe(RSum(C9_Increases), C9_Allowance)

\* The scenario with every budget high enough: the increases sum to 20%.
C9_WitnessUnlifted ==
    /\ C9_Scenario
    /\ Len(eng_decisions) = 3
    /\ \A i \in 1..3 : ~C9_Floored(eng_decisions[i])
    /\ RSum(C9_Increases) = C9_Allowance

\* The step in which a cycle that reached execution returns.
CycleReturnsAfterExecution == eng_pc = "execute" /\ eng_pc' = "done"

\* The log grew by exactly one record, which holds what the cycle in flight
\* decided and executed.
CycleRecordAppended ==
    /\ Len(db_decisions') = Len(db_decisions) + 1
    /\ SubSeq(db_decisions', 1, Len(db_decisions)) = db_decisions
    /\ LET record == db_decisions'[Len(db_decisions')]
       IN  /\ record.sku_id = eng_sku
           /\ record.client_id = SkuStore[eng_sku].client_id
           /\ record.mode = eng_mode
           /\ record.decisions = eng_decisions
           /\ record.execution_results = eng_results
           /\ Len(eng_results) = Len(eng_decisions)

\* C12 as stated: every cycle that reaches execution and returns success=true
\* has appended exactly one record to the decision log, after all its decisions
\* were executed, holding its sku_id, client_id, mode, decisions and execution
\* results; no log record is ever updated or removed.
C12_EveryCycleLogged ==
    [][/\ CycleReturnsAfterExecution => eng_result'.success /\ CycleRecordAppended
       /\ ~CycleReturnsAfterExecution => db_decisions' = db_decisions]_vars

\* C12: the decision log changes only in the step in which a cycle that
\* reached execution returns success=true, and then by one appended record
\* holding the cycle's sku_id, client_id, mode, decisions and execution
\* results, all decisions having been executed; the step appends the record
\* unless the insert raised, in which case the cycle still returns
\* success=true and the log is unchanged.
C12_LogAppendedUnlessInsertRaised ==
    [][/\ db_decisions' # db_decisions =>
            CycleReturnsAfterExecution /\ eng_result'.success /\ CycleRecordAppended
       /\ CycleReturnsAfterExecution =>
            /\ eng_result'.success
            /\ IF "insert_one" \in eng_faults'
               THEN db_decisions' = db_decisions
               ELSE CycleRecordAppended]_vars

\* A second cycle has returned: both cycles' records are in the log, the
\* later one holding executed decisions.
C12_Witness ==
    /\ eng_pc = "done"
    /\ eng_result.success
    /\ "insert_one" \notin eng_faults
    /\ Len(db_decisions) = 2
    /\ eng_decisions # <<>>
    /\ db_decisions[2].decisions = eng_decisions
    /\ db_decisions[2].execution_results = eng_results

\* A cycle returned success=true although its insert raised.
C12_WitnessInsertRaised ==
    /\ eng_pc = "done"
    /\ eng_result.success
    /\ "insert_one" \in eng_faults
    /\ eng_decisions # <<>>
    /\ db_decisions = <<>>

(***************************************************************************)
(* Properties of the scheduler.                                            *)
(***************************************************************************)
LoggedSkus == [i \in 1..Len(sch_log) |-> sch_log[i].sku]

\* C13: in one pass the engine is invoked once for every SKU the status=active
\* enumeration returned, one after the other in enumeration order, and a cycle
\* that fails (success=false, which is also what an exception inside the cycle
\* becomes) never keeps the SKUs after it in the pass from their cycles.
C13_EveryActiveSkuGetsItsCycle ==
    /\ sch_pc \in {"pass", "cycle", "sleep"} =>
         /\ LoggedSkus = SubSeq(sch_skus, 1, Len(sch_log))
         /\ Len(sch_log) = IF sch_pc = "cycle" THEN sch_pos + 1 ELSE sch_pos
         /\ \A i \in 1..sch_pos : sch_log[i].outcome \in {"success", "failure"}
    /\ sch_pc = "sleep" =>
         /\ sch_skus = ActiveSkus(sch_store)
         /\ Len(sch_log) = Len(sch_skus)
    /\ sch_pc = "retry_sleep" => sch_log = <<>>

C13_Witness ==
    /\ sch_pc = "sleep"
    /\ Len(sch_log) = 3
    /\ sch_log[1].outcome = "failure"
    /\ sch_log[2].outcome = "success"
    /\ sch_log[3].outcome = "failure"

\* C14 as stated: the stop flag is checked between SKUs: once stop_optimization
\* is called during a pass, the cycle in flight finishes, no further SKU's
\* cycle is started by that run, and the loop eventually exits.
C14_NoCycleStartedAfterStop ==
    /\ [](\A i \in 1..Len(sch_log) : ~sch_log[i].after_stop)
    /\ (sch_stopped ~> sch_pc = "exited")

C14_StoppedRunFinishesItsPass ==
    sch_stopped =>
        /\ ~sch_running
        /\ sch_pass = sch_stop_pass
        /\ sch_pc \in {"sleep", "retry_sleep", "loop", "exited"} =>
              Len(sch_log) = Len(sch_skus)

\* C14: the stop flag is checked only at the top of the loop, between passes:
\* once stop_optimization is called during a pass, the cycle in flight and the
\* cycles of the remaining SKUs of that pass still run, no further pass is
\* started by that run, and after the sleep that ends the pass the loop exits.
C14_StopTakesEffectBetweenPasses ==
    /\ []C14_StoppedRunFinishesItsPass
    /\ (sch_stopped ~> sch_pc = "exited")

\* Stopped during the first SKU's cycle, the run went through the two SKUs
\* after it and then exited.
C14_Witness ==
    /\ sch_pc = "exited"
    /\ Len(sch_log) = 3
    /\ ~sch_log[1].after_stop
    /\ sch_log[2].after_stop /\ sch_log[2].outcome # "running"
    /\ sch_log[3].after_stop /\ sch_log[3].outcome # "running"

(***************************************************************************)
(* Properties of aggregate_performance_data.                               *)
(***************************************************************************)
SameSeries(a, b) ==
    /\ a.vendor = b.vendor
    /\ a.campaign_id = b.campaign_id
    /\ a.start = b.start
    /\ a.end = b.end

AggEventBefore(k, ev, name, out) ==
    \E j \in 1..(k - 1) :
        /\ agg_trace[j].ev = ev
        /\ agg_trace[j].name = name
        /\ agg_trace[j].out = out

\* C16: for every source that gave data the raw payload is persisted before
\* its normalized record is computed and persisted: at every point each
\* persisted normalized record has a persisted raw record of the same vendor,
\* campaign and window, and no source is normalized whose raw save did not
\* complete.
C16_RawBeforeNormalized ==
    /\ Len(db_norm) <= Len(db_raw)
    /\ \A j \in 1..Len(db_norm) :
         \E k \in 1..Len(db_raw) :
            /\ SameSeries(db_norm[j], db_raw[k])
            /\ normalize_payload(db_raw[k].vendor, db_raw[k].payload,
                   db_raw[k].campaign_id, db_raw[k].platform,
                   db_raw[k].account_id, <<db_raw[k].start, db_raw[k].end>>,
                   db_norm[j].aggregated_at) = db_norm[j]
    /\ \A k \in 1..Len(agg_trace) :
         /\ agg_trace[k].ev = "normalize_payload" =>
               AggEventBefore(k, "save_raw", agg_trace[k].name, "ok")
         /\ agg_trace[k].ev = "save_normalized" =>
               AggEventBefore(k, "normalize_payload", agg_trace[k].name, "ok")

C16_Witness ==
    /\ agg_pc = "done"
    /\ agg_result.success
    /\ Len(db_raw) = 2
    /\ Len(db_norm) = 2
    /\ db_raw[1].vendor = "integrator" /\ db_norm[1].vendor = "integrator"
    /\ db_raw[2].vendor = "platform" /\ db_norm[2].vendor = "platform"

\* The raw payload of a report that cannot be normalized is kept.
C16_WitnessRawOnly ==
    /\ agg_pc = "done"
    /\ ~agg_result.success
    /\ Len(db_raw) = 1
    /\ db_raw[1].payload = BadPayload
    /\ db_norm = <<>>

AggCollected ==
    agg_pc \in {"merge", "save_raw", "normalize", "save_normalized", "finish", "done"}

AggPlatformEvents ==
    SelectSeq(agg_trace,
              LAMBDA e : e.ev \in {"collect_platform", "platform_metrics"})

AggStoreEvents ==
    SelectSeq(agg_trace, LAMBDA e : e.ev \in {"save_raw", "save_normalized"})

\* C17: both paths are always queried, the platform path also when an
\* integrator gave data; the result lists at most two sources, 'integrator'
\* and 'platform', one per path that gave data; when neither gave data the
\* result is success=false and nothing is persisted.
C17_BothPathsQueried ==
    /\ AggCollected =>
         /\ AggPlatformEvents # <<>>
         /\ agg_registered =>
               \E k \in 1..Len(agg_trace) : agg_trace[k].ev = "platform_metrics"
         /\ agg_integrator_data = NoData =>
               \A i \in 1..Len(agg_integrators) :
                  agg_integrators[i].has_metrics =>
                     \E k \in 1..Len(agg_trace) :
                        /\ agg_trace[k].ev = "integrator_metrics"
                        /\ agg_trace[k].name = agg_integrators[i].name
    /\ agg_pc = "done" /\ agg_result.success =>
         /\ Len(agg_result.data.sources) \in 1..2
         /\ agg_result.data.sources =
               (IF agg_integrator_data # NoData THEN <<"integrator">> ELSE <<>>)
               \o (IF agg_platform_data # NoData THEN <<"platform">> ELSE <<>>)
    /\ agg_pc = "done" /\ agg_integrator_data = NoData /\ agg_platform_data = NoData =>
         /\ ~agg_result.success
         /\ agg_result.message = "No performance data available from any source"
         /\ AggStoreEvents = <<>>

\* An integrator gave data, the platform was queried all the same and gave
\* its own: both are listed.
C17_Witness ==
    /\ agg_pc = "done"
    /\ agg_result.success
    /\ agg_result.data.sources = <<"integrator", "platform">>
    /\ agg_result.data.total_spend = RInt(400)

(***************************************************************************)
(* Properties of campaign creation.                                        *)
(***************************************************************************)
\* C20: every creation request create_campaign_with_fallback sends, through
\* an integrator or through a platform connector, carries the paused status,
\* whatever status campaign_data asks for.
C20_EveryRequestPaused ==
    \A i \in DOMAIN cr_trace : cr_trace[i].status = "PAUSED"

\* What the code does keep: a request of a platform connector is paused, and
\* a request of an integrator carries the status of the body it was given.
C20_PlatformRequestsPaused ==
    \A i \in DOMAIN cr_trace :
        IF cr_trace[i].via \in IntegratorNames
        THEN cr_trace[i].status = AdRollBodyStatus(cr_data)
        ELSE cr_trace[i].status = "PAUSED"

\* A platform connector has posted its request for data asking for ACTIVE.
C20_PlatformCase ==
    /\ cr_pc = "done"
    /\ cr_data.status = "ACTIVE"
    /\ \E i \in DOMAIN cr_trace : cr_trace[i].via \notin IntegratorNames

(***************************************************************************)
(* Properties of the platform connectors.                                  *)
(***************************************************************************)
\* C21: a connector call whose response has status 429 fails, for its
\* caller, with RateLimitError; status 401 with AuthenticationError; any
\* other non-2xx status with a plain IntegrationError.
C21_StatusClassifiedForCaller ==
    cn_pc = "done" =>
        /\ cn_status = 429 => cn_observed = RaisedToCaller("RateLimitError")
        /\ cn_status = 401
              => cn_observed = RaisedToCaller("AuthenticationError")
        /\ cn_status \notin {401, 429} /\ cn_status \notin 200..299
              => cn_observed = RaisedToCaller("IntegrationError")

\* What the code does keep: the class is chosen inside the try block, and
\* whatever was raised there leaves the operation as a plain
\* IntegrationError.
C21_EveryFailureIsPlainIntegrationError ==
    cn_pc = "done" =>
        /\ cn_raised = ClassifyStatus(cn_op, cn_status)
        /\ cn_raised # NoException
              => cn_observed = RaisedToCaller("IntegrationError")
        /\ cn_raised = NoException => cn_observed.kind = "return"

\* A 429 answer has been classified as RateLimitError and handled.
C21_RateLimitCase ==
    /\ cn_pc = "done"
    /\ cn_status = 429
    /\ cn_raised = "RateLimitError"

(***************************************************************************)
(* Properties of the platform path when the connector raises.              *)
(***************************************************************************)
RaisingOutcomes == {"rate_limit", "auth_error", "integration_error"}

\* C22: an attempt of the platform path on which the connector raises a
\* plain IntegrationError is retried until the call succeeds or 3 attempts
\* were made, and only then is the failure reported; an AuthenticationError
\* is not retried and ends the path at once.
C22_IntegrationErrorRetriedToTheCap ==
    LET pe == PlatformEvents
    IN  /\ \A k \in 1..Len(pe) :
             (pe[k].out = "integration_error" /\ k = Len(pe) /\ mw_pc = "done")
                 => k = MaxAttempts
        /\ \A k \in 1..Len(pe) :
             pe[k].out = "auth_error" =>
                 /\ k = Len(pe)
                 /\ mw_pc = "done"
                 /\ ~mw_result.success

\* What the code does keep: only a false return is retried; an attempt that
\* raises, whatever the class, is the last one and the path reports failure.
C22_RaisingAttemptEndsThePath ==
    LET pe == PlatformEvents
    IN  \A k \in 1..Len(pe) :
            pe[k].out \in RaisingOutcomes =>
                /\ k = Len(pe)
                /\ mw_pc = "done"
                /\ ~mw_result.success

\* The first attempt raised a plain IntegrationError and the call is over.
C22_IntegrationErrorCase ==
    /\ mw_pc = "done"
    /\ Len(PlatformEvents) = 1
    /\ PlatformEvents[1].out = "integration_error"
    /\ ~mw_result.success

(***************************************************************************)
(* Properties of the operations of the core under collaborator failures.   *)
(***************************************************************************)
\* The collaborator calls of the call in flight that raised.
RaisedIn(events) == {k \in 1..Len(events) : events[k].out \in
                        {"raise", "rate_limit", "auth_error", "integration_error"}}

\* The reads whose exception ends the decision cycle.
CycleEndingFaults == {"get_sku_by_id", "get_campaigns_by_sku"}

\* C23: make_hourly_decisions, execute_budget_change,
\* aggregate_performance_data, create_campaign_with_fallback and
\* pause_campaign_with_fallback end, whatever their collaborators raised,
\* by returning a record; a record that is not a success has success=false
\* and a message.  make_hourly_decisions for a SKU id that does not exist
\* returns success=false, executes no decision and writes no log record.
C23_FailuresAreReturned ==
    /\ eng_pc = "done" =>
          /\ eng_result.success \in BOOLEAN
          /\ ~eng_result.success => eng_result.message # ""
          /\ eng_faults \cap CycleEndingFaults # {} => ~eng_result.success
    /\ (eng_pc = "done" /\ eng_sku = "sku404") =>
          /\ ~eng_result.success
          /\ eng_result.message # ""
          /\ eng_calls = <<>>
          /\ eng_results = <<>>
    /\ \A k \in 1..Len(db_decisions) : db_decisions[k].sku_id # "sku404"
    /\ mw_pc = "done" =>
          /\ mw_result.success \in BOOLEAN
          /\ ~mw_result.success => mw_result.message # <<>>
          /\ trace # <<>> /\ RaisedIn(trace) = 1..Len(trace)
                => ~mw_result.success
    /\ agg_pc = "done" =>
          /\ agg_result.success \in BOOLEAN
          /\ ~agg_result.success => agg_result.message # ""
    /\ cr_pc = "done" =>
          /\ cr_result.success \in BOOLEAN
          /\ ~cr_result.success => cr_result.message # ""
    /\ pz_pc = "done" =>
          /\ pz_result.success \in BOOLEAN
          /\ ~pz_result.success => pz_result.message # ""
          /\ pz_trace # <<>> /\ RaisedIn(pz_trace) = 1..Len(pz_trace)
                => ~pz_result.success

\* The read of the campaigns raised inside a decision cycle, which returned.
C23_Witness ==
    /\ eng_pc = "done"
    /\ "get_campaigns_by_sku" \in eng_faults
    /\ ~eng_result.success

\* A cycle for the SKU id that does not exist has returned.
C23_WitnessSkuNotFound ==
    /\ eng_pc = "done"
    /\ eng_sku = "sku404"
    /\ eng_faults = {}

\* Every connector called by execute_budget_change raised, the platform
\* connector included.
C23_WitnessBudgetChange ==
    /\ mw_pc = "done"
    /\ Len(trace) = 2
    /\ RaisedIn(trace) = {1, 2}
    /\ IsPlatformCall(trace[2])

\* An insert raised inside aggregate_performance_data, which returned.
C23_WitnessAggregate ==
    /\ agg_pc = "done"
    /\ agg_result = AggFailure

\* Every connector called by pause_campaign_with_fallback raised.
C23_WitnessPause ==
    /\ pz_pc = "done"
    /\ Len(pz_trace) = 2
    /\ RaisedIn(pz_trace) = {1, 2}

\* The creation request of the platform connector raised.
C23_WitnessCreate ==
    /\ cr_pc = "done"
    /\ cr_trace # <<>>
    /\ ~cr_result.success

(***************************************************************************)
(* Properties of the split of the exploration budget.                      *)
(***************************************************************************)
C24_Active == ActiveCampaigns(fn_campaigns)

\* explore_budget_percentage% of the total budget of the active campaigns.
C24_ExplorationBudget ==
    RMul(RSum(CampaignBudgets(C24_Active)), Rat(explore_budget_percentage, 100))

\* k = min(3, number of active campaigns)
C24_Selected == IF Len(C24_Active) < 3 THEN Len(C24_Active) ELSE 3

C24_Increases ==
    [i \in 1..Len(fn_decisions) |->
        RSub(fn_decisions[i].new_budget, fn_decisions[i].old_budget)]

C24_Unfloored(share) ==
    \A i \in 1..Len(fn_decisions) :
        RLe(RInt(min_campaign_budget), RAdd(fn_decisions[i].old_budget, share))

\* C24: in explore mode the exploration budget is split evenly across the
\* k = min(3, active campaigns) selected campaigns: each new_budget is the
\* current budget plus exploration_budget / k, floored at
\* min_campaign_budget, so that when no floor applies the increases sum to
\* the whole exploration budget.
C24_SplitAcrossSelected ==
    (fn_called = "explore" /\ C24_Selected > 0) =>
        LET share == RDiv(C24_ExplorationBudget, RInt(C24_Selected))
        IN  /\ \A i \in 1..Len(fn_decisions) :
                 fn_decisions[i].new_budget =
                     RMax(RAdd(fn_decisions[i].old_budget, share),
                          RInt(min_campaign_budget))
            /\ (C24_Unfloored(share) /\ Len(fn_decisions) = C24_Selected)
                  => RSum(C24_Increases) = C24_ExplorationBudget

\* What the code does keep: every share is a third of the exploration
\* budget, however many campaigns were selected, so that k selected
\* campaigns with no floor receive k/3 of it.
C24_SplitInThirds ==
    fn_called = "explore" =>
        LET share == RDiv(C24_ExplorationBudget, RInt(3))
        IN  /\ \A i \in 1..Len(fn_decisions) :
                 fn_decisions[i].new_budget =
                     RMax(RAdd(fn_decisions[i].old_budget, share),
                          RInt(min_campaign_budget))
            /\ (C24_Unfloored(share) /\ Len(fn_decisions) = C24_Selected)
                  => RSum(C24_Increases) =
                         RMul(C24_ExplorationBudget, Rat(C24_Selected, 3))

\* Two active campaigns, no floor: two thirds of the exploration budget.
C24_TwoCampaignsCase ==
    /\ fn_called = "explore"
    /\ Len(C24_Active) = 2
    /\ Len(fn_decisions) = 2
    /\ C24_Unfloored(RDiv(C24_ExplorationBudget, RInt(3)))
    /\ RSum(C24_Increases) = RMul(C24_ExplorationBudget, Rat(2, 3))

(***************************************************************************)
(* Properties of the exploit decisions at low budgets.                     *)
(***************************************************************************)
\* C25: in exploit mode a campaign with ROAS < 1.5 never gets a decision
\* whose new_budget is greater than its old_budget, and no exploit decision
\* has new_budget equal to old_budget, for every starting budget >= 0.
C25_LowRoasNeverRaisedNoNoOp ==
    fn_called = "exploit" =>
        \A k \in 1..Len(fn_decisions) :
            LET d == fn_decisions[k]
            IN  /\ RLt(FnRoas(d.campaign_id), LowRoas)
                      => RLe(d.new_budget, d.old_budget)
                /\ d.new_budget # d.old_budget

\* What the code does keep: above min_campaign_budget a low-ROAS decision
\* lowers the budget, never below the minimum; at or below the minimum the
\* decision sets the budget to the minimum; a high-ROAS decision changes
\* every budget but 0.
C25_LowRoasSetToAtLeastMinimum ==
    fn_called = "exploit" =>
        \A k \in 1..Len(fn_decisions) :
            LET d == fn_decisions[k]
            IN  /\ RLt(FnRoas(d.campaign_id), LowRoas) =>
                      IF RLt(RInt(min_campaign_budget), d.old_budget)
                      THEN /\ RLt(d.new_budget, d.old_budget)
                           /\ RLe(RInt(min_campaign_budget), d.new_budget)
                      ELSE d.new_budget = RInt(min_campaign_budget)
                /\ RLt(HighRoas, FnRoas(d.campaign_id)) =>
                      (d.new_budget = d.old_budget <=> d.old_budget = RInt(0))

\* A low-ROAS campaign below the minimum has had its budget raised.
C25_RaisedCase ==
    /\ fn_called = "exploit"
    /\ \E k \in 1..Len(fn_decisions) :
         /\ RLt(FnRoas(fn_decisions[k].campaign_id), LowRoas)
         /\ fn_decisions[k].old_budget = RInt(50)
         /\ fn_decisions[k].new_budget = RInt(100)

\* A low-ROAS campaign at the minimum got a decision that changes nothing.
C25_NoOpCase ==
    /\ fn_called = "exploit"
    /\ \E k \in 1..Len(fn_decisions) :
         /\ fn_decisions[k].old_budget = RInt(min_campaign_budget)
         /\ fn_decisions[k].new_budget = RInt(min_campaign_budget)

(***************************************************************************)
(* Properties of the number of campaigns one creation call creates.        *)
(***************************************************************************)
AcceptedRequests == {i \in DOMAIN cr_trace : cr_trace[i].accepted}

\* C26: one create_campaign_with_fallback call creates at most one campaign:
\* once an integrator's creation request was accepted by its service (2xx),
\* the platform connector's create_campaign is not called in that call,
\* whatever the shape of the integrator's response body.
C26_AtMostOneCampaignCreated ==
    /\ Cardinality(AcceptedRequests) <= 1
    /\ \A i \in DOMAIN cr_trace :
         (cr_trace[i].via \in IntegratorNames /\ cr_trace[i].accepted) =>
             \A j \in DOMAIN cr_trace :
                 j > i => cr_trace[j].via \in IntegratorNames

\* What the code does keep: the call goes on after a request exactly when
\* create_campaign returned no id, so a request that returned an id is the
\* last one.
C26_StopsAtFirstReturnedId ==
    cr_pc = "done" =>
        /\ cr_result.success =>
              /\ cr_trace # <<>>
              /\ cr_trace[Len(cr_trace)].accepted
              /\ cr_result.source = cr_trace[Len(cr_trace)].via
        /\ Cardinality(AcceptedRequests) <= 2

\* AdRoll accepted the request, its answer held no eid, and the platform
\* connector created the campaign again.
C26_CreatedTwiceCase ==
    /\ cr_pc = "done"
    /\ Len(cr_trace) = 2
    /\ cr_trace[1].via = "adroll"
    /\ cr_trace[1].accepted
    /\ cr_trace[2].accepted
    /\ cr_result.success

(***************************************************************************)
(* Properties of a call under registrations in flight.                     *)
(***************************************************************************)
\* The integrators registered when the call started that offer
\* update_campaign_budget, in order.
CapableAtStart == SelectSeq(rg_started, HasUpdate)

\* C27: a register_integrator or register_platform call interleaved with an
\* execute_budget_change in flight does not change its outcome: the call
\* still tries every integrator registered when it started, still falls
\* back to the platform connector when they all fail, and does not fail
\* because of the registration.
C27_RegistrationLeavesCallAlone ==
    (mw_pc = "done" /\ NoIntegratorSucceeded) =>
        /\ Len(IntegratorEvents) >= Len(CapableAtStart)
        /\ (fallback_enabled /\ call_platform \in platforms)
              => PlatformEvents # <<>>
        /\ mw_result # IterationFailure

\* What the code does keep: the call is broken exactly when a new name was
\* registered while the integrator loop was suspended; a registration that
\* replaces a known name or comes during the platform path leaves the loop
\* and the fallback alone.
C27_OnlyNewNameUnderLoopBreaks ==
    mw_pc = "done" =>
        /\ mw_result = IterationFailure <=> rg_resized
        /\ rg_resized => PlatformEvents = <<>>
        /\ (~rg_resized /\ NoIntegratorSucceeded /\ fallback_enabled
              /\ call_platform \in platforms) => PlatformEvents # <<>>

\* A new integrator was registered during the await of the first one, which
\* failed: the second was never tried and the platform never called.
C27_BrokenCase ==
    /\ mw_pc = "done"
    /\ rg_resized
    /\ Len(CapableAtStart) = 2
    /\ Len(IntegratorEvents) = 1
    /\ fallback_enabled
    /\ call_platform \in platforms
    /\ PlatformEvents = <<>>

(***************************************************************************)
(* Properties of the scheduler under repeated start calls.                 *)
(***************************************************************************)
ActiveLoops == {i \in DOMAIN dl_pc : dl_pc[i] \notin {"unstarted", "exited"}}

\* C28: under any interleaving of start_hourly_optimization and
\* stop_optimization calls on one scheduler, at most one optimization loop
\* is active at any time, and no SKU's decision cycle is run by two loops
\* in the same hour.
C28_AtMostOneLoop ==
    /\ Cardinality(ActiveLoops) <= 1
    /\ \A a, b \in dl_cycles :
         (a.sku = b.sku /\ a.hour = b.hour) => a.loop = b.loop

\* What the code does keep: a loop leaves only at its loop test, with the
\* flag down; a loop that is not at its test when the flag goes down and up
\* again never notices.
C28_LoopLeavesOnlyOnFlag ==
    [][\A i \in Loops :
          (dl_pc[i] # "exited" /\ dl_pc'[i] = "exited")
              => (dl_pc[i] = "loop" /\ ~dl_running)]_vars

\* stop, then a second start while the first loop sleeps: both loops have
\* run the cycle of sku1 in the same hour.
C28_TwoLoopsCase ==
    /\ Cardinality(ActiveLoops) = 2
    /\ \E a, b \in dl_cycles :
         a.sku = "sku1" /\ b.sku = "sku1" /\ a.hour = b.hour /\ a.loop # b.loop

(***************************************************************************)
(* Properties of persistence when the aggregation fails.                   *)
(***************************************************************************)
SavedBy(ev) ==
    SelectSeq(agg_trace, LAMBDA e : e.ev = ev /\ e.out = "ok")

\* C29: aggregate_performance_data is all-or-nothing with respect to
\* persistence: whenever it returns success=false, no raw or normalized
\* record of that call has been left in the metric stores.
C29_FailureLeavesNoRecord ==
    (agg_pc = "done" /\ ~agg_result.success) =>
        /\ SavedBy("save_raw") = <<>>
        /\ SavedBy("save_normalized") = <<>>

\* What the code does keep: nothing is undone.  A call that fails leaves
\* the records of the sources it was through, and the raw record of the
\* source it failed on once that was saved.
C29_FailureKeepsWhatWasSaved ==
    (agg_pc = "done" /\ ~agg_result.success) =>
        /\ Len(SavedBy("save_normalized")) = agg_pos
        /\ Len(SavedBy("save_raw")) \in {agg_pos, agg_pos + 1}
        /\ Len(db_raw) >= Len(SavedBy("save_raw"))
        /\ Len(db_norm) >= Len(SavedBy("save_normalized"))

\* The records of the first source were saved, the raw record of the second
\* too, and saving its normalized record raised.
C29_SecondSourceCase ==
    /\ agg_pc = "done"
    /\ ~agg_result.success
    /\ agg_pos = 1
    /\ Len(SavedBy("save_raw")) = 2
    /\ Len(SavedBy("save_normalized")) = 1
    /\ agg_trace[Len(agg_trace)] = CallEvent("save_normalized", "platform", "raise")

(***************************************************************************)
(* The quality score and the amounts that are summed.                      *)
(***************************************************************************)
\* The spend and impressions of each source as lines 143-144 add them to
\* the totals: the fields of the source's normalized record.
SummedAmounts(sources) ==
    [i \in 1..Len(sources) |->
        LET normalized == normalize_payload(sources[i][1], sources[i][2],
                              AggCampaign, AggPlatform, AggAccount, AggWindow, 0)
        IN  <<sources[i][1],
              [spend |-> normalized.spend, impressions |-> normalized.impressions]>>]

\* The amounts of a payload are under the keys spend and impressions.
UnderPrimaryKeys(payload) ==
    /\ Truthy(payload["spend"])
    /\ Truthy(payload["impressions"])

\* C30: the data_quality_score of a successful aggregation is the score of
\* the per-source spend and impressions that were summed into total_spend
\* and total_impressions, so that sources carrying their amounts under the
\* aliases total_spend, cost and total_impressions score as the same
\* amounts under spend and impressions do.
C30_ScoreOfSummedAmounts ==
    (agg_pc = "done" /\ agg_result.success) =>
        agg_result.data.data_quality_score =
            calculate_data_quality_score(SummedAmounts(agg_sources))

\* What the code keeps: the score is the one of the values under the keys
\* spend and impressions of the raw payloads, a missing key counting as 0;
\* it is the score of the summed amounts when every source uses these keys.
C30_ScoreOfRawKeys ==
    (agg_pc = "done" /\ agg_result.success) =>
        /\ agg_result.data.data_quality_score = ScoreOfSources(agg_sources)
        /\ (\A i \in 1..Len(agg_sources) : UnderPrimaryKeys(agg_sources[i][2])) =>
               agg_result.data.data_quality_score =
                   calculate_data_quality_score(SummedAmounts(agg_sources))

\* Two sources report 100 and 300 of spend under total_spend and cost: the
\* totals are those of FullPayload and AltPayload, whose score is 7/8, and
\* the score returned is 1.
C30_AliasCase ==
    /\ agg_pc = "done"
    /\ agg_result.success
    /\ agg_sources = <<<<"integrator", AliasPayload>>, <<"platform", CostPayload>>>>
    /\ agg_result.data.total_spend = RInt(400)
    /\ agg_result.data.total_impressions = RInt(2000)
    /\ agg_result.data.data_quality_score = RInt(1)
    /\ ScoreOfSources(<<<<"integrator", FullPayload>>, <<"platform", AltPayload>>>>)
           = Rat(7, 8)

\* The same amounts under spend and impressions.
C30_PrimaryKeysCase ==
    /\ agg_pc = "done"
    /\ agg_result.success
    /\ agg_sources = <<<<"integrator", FullPayload>>, <<"platform", AltPayload>>>>
    /\ agg_result.data.total_spend = RInt(400)
    /\ agg_result.data.total_impressions = RInt(2000)
    /\ agg_result.data.data_quality_score = Rat(7, 8)

(***************************************************************************)
(* Specifications: one per component; the other components stay as         *)
(* constructed.                                                            *)
(***************************************************************************)
\* IntegrationMiddleware.execute_budget_change and the registry.
InitBudget ==
    /\ MwInit
    /\ DmIdle
    /\ FnIdle
    /\ EngIdle
    /\ ExIdle
    /\ SchIdle
    /\ QsIdle
    /\ NzIdle
    /\ AggIdle
    /\ CrIdle
    /\ CnIdle
    /\ PzIdle
    /\ RgIdle
    /\ DlIdle
SpecBudget == InitBudget /\ [][MwNext]_vars

\* SKUIntelligence.determine_mode over its input domain.
InitMode ==
    /\ DmInit
    /\ MwInit
    /\ FnIdle
    /\ EngIdle
    /\ ExIdle
    /\ SchIdle
    /\ QsIdle
    /\ NzIdle
    /\ AggIdle
    /\ CrIdle
    /\ CnIdle
    /\ PzIdle
    /\ RgIdle
    /\ DlIdle
SpecMode == InitMode /\ [][DmNext]_vars

\* SKUIntelligence.explore_mode_decisions over drawn campaign lists.
InitExplore ==
    /\ FnInit(ExploreRows, MaxExploreCampaigns)
    /\ MwInit
    /\ DmIdle
    /\ EngIdle
    /\ ExIdle
    /\ SchIdle
    /\ QsIdle
    /\ NzIdle
    /\ AggIdle
    /\ CrIdle
    /\ CnIdle
    /\ PzIdle
    /\ RgIdle
    /\ DlIdle
NextExplore == ExploreCall
SpecExplore == InitExplore /\ [][NextExplore]_vars

\* SKUIntelligence.exploit_mode_decisions over drawn campaign lists.
InitExploit ==
    /\ FnInit(ExploitRows, MaxExploitCampaigns)
    /\ MwInit
    /\ DmIdle
    /\ EngIdle
    /\ ExIdle
    /\ SchIdle
    /\ QsIdle
    /\ NzIdle
    /\ AggIdle
    /\ CrIdle
    /\ CnIdle
    /\ PzIdle
    /\ RgIdle
    /\ DlIdle
NextExploit == ExploitCall
SpecExploit == InitExploit /\ [][NextExploit]_vars

\* SKUIntelligence.execute_decisions over drawn decision lists.
InitExecute ==
    /\ ExInit
    /\ MwInit
    /\ DmIdle
    /\ FnIdle
    /\ EngIdle
    /\ SchIdle
    /\ QsIdle
    /\ NzIdle
    /\ AggIdle
    /\ CrIdle
    /\ CnIdle
    /\ PzIdle
    /\ RgIdle
    /\ DlIdle
SpecExecute == InitExecute /\ [][ExNext]_vars

\* IntelligenceScheduler over drawn SKU stores.
InitScheduler ==
    /\ SchInit
    /\ MwInit
    /\ DmIdle
    /\ FnIdle
    /\ EngIdle
    /\ ExIdle
    /\ QsIdle
    /\ NzIdle
    /\ AggIdle
    /\ CrIdle
    /\ CnIdle
    /\ PzIdle
    /\ RgIdle
    /\ DlIdle
SpecScheduler == InitScheduler /\ [][SchNext]_vars

\* The same, the event loop running every step of the coroutine that is ready.
SpecSchedulerFair == SpecScheduler /\ WF_vars(SchRun)

\* IntegrationMiddleware._calculate_data_quality_score over drawn sources.
InitQuality ==
    /\ QsInit
    /\ MwInit
    /\ DmIdle
    /\ FnIdle
    /\ EngIdle
    /\ ExIdle
    /\ SchIdle
    /\ NzIdle
    /\ AggIdle
    /\ CrIdle
    /\ CnIdle
    /\ PzIdle
    /\ RgIdle
    /\ DlIdle
SpecQuality == InitQuality /\ [][QsNext]_vars

\* IntegrationMetricsService.normalize_payload over drawn payloads.
InitNormalize ==
    /\ NzInit
    /\ MwInit
    /\ DmIdle
    /\ FnIdle
    /\ EngIdle
    /\ ExIdle
    /\ SchIdle
    /\ QsIdle
    /\ AggIdle
    /\ CrIdle
    /\ CnIdle
    /\ PzIdle
    /\ RgIdle
    /\ DlIdle
SpecNormalize == InitNormalize /\ [][NzNext]_vars

\* IntegrationMiddleware.aggregate_performance_data over drawn registries.
InitAggregate ==
    /\ AggInit
    /\ MwInit
    /\ DmIdle
    /\ FnIdle
    /\ EngIdle
    /\ ExIdle
    /\ SchIdle
    /\ QsIdle
    /\ NzIdle
    /\ CrIdle
    /\ CnIdle
    /\ PzIdle
    /\ RgIdle
    /\ DlIdle
SpecAggregate == InitAggregate /\ [][AggNext]_vars

\* aggregate_performance_data with connectors that report under the aliases.
InitAlias ==
    /\ AggAliasInit
    /\ MwInit
    /\ DmIdle
    /\ FnIdle
    /\ EngIdle
    /\ ExIdle
    /\ SchIdle
    /\ QsIdle
    /\ NzIdle
    /\ CrIdle
    /\ CnIdle
    /\ PzIdle
    /\ RgIdle
    /\ DlIdle
SpecAlias == InitAlias /\ [][AggNext]_vars

\* IntegrationMiddleware.create_campaign_with_fallback over drawn registries.
InitCreate ==
    /\ CrInit
    /\ MwInit
    /\ DmIdle
    /\ FnIdle
    /\ EngIdle
    /\ ExIdle
    /\ SchIdle
    /\ QsIdle
    /\ NzIdle
    /\ AggIdle
    /\ CnIdle
    /\ PzIdle
    /\ RgIdle
    /\ DlIdle
SpecCreate == InitCreate /\ [][CrNext]_vars

\* One connector operation over every status code.
InitConnector ==
    /\ CnInit
    /\ MwInit
    /\ DmIdle
    /\ FnIdle
    /\ EngIdle
    /\ ExIdle
    /\ SchIdle
    /\ QsIdle
    /\ NzIdle
    /\ AggIdle
    /\ CrIdle
    /\ PzIdle
    /\ RgIdle
    /\ DlIdle
SpecConnector == InitConnector /\ [][CnNext]_vars

\* IntegrationMiddleware.pause_campaign_with_fallback over drawn registries.
InitPause ==
    /\ PzInit
    /\ MwInit
    /\ DmIdle
    /\ FnIdle
    /\ EngIdle
    /\ ExIdle
    /\ SchIdle
    /\ QsIdle
    /\ NzIdle
    /\ AggIdle
    /\ CrIdle
    /\ CnIdle
    /\ RgIdle
    /\ DlIdle
SpecPause == InitPause /\ [][PzNext]_vars

\* The five operations of the core, each from its own drawn state.
InitFacade ==
    /\ FacadeInit
    /\ DmIdle
    /\ FnIdle
    /\ ExIdle
    /\ SchIdle
    /\ QsIdle
    /\ NzIdle
    /\ CnIdle
    /\ RgIdle
    /\ DlIdle
SpecFacade == InitFacade /\ [][FacadeNext]_vars

\* execute_budget_change with registrations at its suspension points.
InitRegistration ==
    /\ RgInit
    /\ DmIdle
    /\ FnIdle
    /\ EngIdle
    /\ ExIdle
    /\ SchIdle
    /\ QsIdle
    /\ NzIdle
    /\ AggIdle
    /\ CrIdle
    /\ CnIdle
    /\ PzIdle
    /\ DlIdle
SpecRegistration == InitRegistration /\ [][RgNext]_vars

\* One scheduler, start and stop called in any order.
InitRestart ==
    /\ DlInit
    /\ MwInit
    /\ DmIdle
    /\ FnIdle
    /\ EngIdle
    /\ ExIdle
    /\ SchIdle
    /\ QsIdle
    /\ NzIdle
    /\ AggIdle
    /\ CrIdle
    /\ CnIdle
    /\ PzIdle
    /\ RgIdle
SpecRestart == InitRestart /\ [][DlNext]_vars

\* SKUIntelligence.make_hourly_decisions over drawn stores.
InitEngine ==
    /\ EngInit
    /\ MwInit
    /\ DmIdle
    /\ FnIdle
    /\ ExIdle
    /\ SchIdle
    /\ QsIdle
    /\ NzIdle
    /\ AggIdle
    /\ CrIdle
    /\ CnIdle
    /\ PzIdle
    /\ RgIdle
    /\ DlIdle
SpecEngine == InitEngine /\ [][EngNext]_vars

====
